---------------------------- MODULE Spec2Model ----------------------------
(***************************************************************************)
(* Model of the grasp-annotation front end (abhaybd/acronym,               *)
(* data_annotation/src): the calibration quiz (Quiz), the schedule token   *)
(* codec (encodeStr / decodeStr / navigateToSchedule) and the annotation   *)
(* workflow (DataAnnotation + AnnotationForm), in its GLTF variant         *)
(* (DataAnnotation.js) and its raw-buffer variant (part_004).              *)
(*                                                                         *)
(* Specifications:                                                         *)
(*   SpecQuiz         the quiz as the reviewer can drive it through the    *)
(*                    rendered controls (disabled / hidden controls are    *)
(*                    the guards of the actions)                           *)
(*   SpecQuizHandlers the quiz handlers as functions of the component      *)
(*                    state: Init draws the state, the actions apply the   *)
(*                    handlers with only the guards of their own bodies    *)
(*   SpecCodec        the token codec applied to bounded valid schedules   *)
(*   Spec             the annotation workflow: one browser tab, the        *)
(*                    requests it has in flight, and what the backend has  *)
(*                    stored                                               *)
(*   SpecLive         Spec with the asset loads completing                 *)
(*   SpecViewer       the raw-buffer variant of DataAnnotation (part_004): *)
(*                    the task of the URL, the mesh requests in flight and *)
(*                    the mesh on display                                  *)
(*   SpecForm         AnnotationForm as a component of its props, in its   *)
(*                    two variants of AnnotationForm.js                    *)
(*   SpecTimedForm    the form of lines 120-257 with time passing          *)
(*   SpecMesh         the Mesh component applied to bounded payloads       *)
(*   SpecTutorial     the first-visit tutorial of Quiz and DataAnnotation  *)
(*                    over one browser's localStorage                      *)
(*   SpecSearch       navigateToSchedule applied to query strings          *)
(* Each specification pins the variables of the other components.          *)
(***************************************************************************)
EXTENDS Integers, Sequences, FiniteSets, TLC

(***************************************************************************)
(* Bounds of the model (not program constants).                            *)
(***************************************************************************)
\* setTimeout redirects that may be pending at once (Finish clicked again
\* during the 3 s delay of the rejection branch)
MaxPendingRedirects == 2

\* longest schedule a session starts from
MaxScheduleLen == 3

\* POST /api/submit-annotation requests in flight at once
MaxInFlightSubmits == 2

\* POST /api/get-object-info requests in flight at once
MaxInFlightFetches == 1

\* longest schedule given to the codec
MaxCodecLen == 2

\* POST /api/get-mesh-data requests of the raw-buffer variant in flight at once
MaxMeshLoads == 2

\* clicks on Submit of the form on its own
MaxFormSubmits == 2

\* last reading of the clock of the form on its own
MaxClock == 2

\* times the form on its own is mounted
MaxFormMounts == 2

\* mounts of a page that hosts the tutorial
MaxTutorialMounts == 4

\* clicks on Show Tutorial
MaxTutorialClicks == 3

\* parameters of the query string a session is opened with
MaxSearchParams == 2

\* tokens pushed into one query string
MaxTokenPushes == 2

VARIABLES
    \* ---- Quiz component state (part_003, useState at 71-76 / 248-253) ----
    quizVariant,          \* 1: QUESTIONS of lines 7-68, 2: QUESTIONS of lines 213-245
    currentQuestionIdx,
    selectedAnswer,
    showFeedback,
    submittedAnswers,
    correctAnswers,
    quizLocation,         \* where the browser is: "quiz" or the place the quiz navigated to
    pendingRedirects,     \* setTimeout(..., 3000) callbacks not yet run
    hasRejectionCode,     \* searchParams.has("prolific_rejection_code")
    \* ---- token codec (DataAnnotation.js 32-47, 87-98) ----
    codecPhase,           \* "input", "encoded", "decoded"
    codecSchedule,        \* the schedule given to navigateToSchedule
    codecToken,           \* result of encoding it (Ok(token) or the exception)
    codecDecoded,         \* result of decoding the token
    \* ---- browser tab of the annotation workflow ----
    page,                 \* "task": DataAnnotation mounted at "/"; "done"; "prolific":
                          \* left for the platform completion URL; "error": React
                          \* tree unmounted after an uncaught exception
    urlToken,             \* searchParams.get("annotation_schedule")
    oneshotParam,         \* searchParams.get("oneshot") === "true"
    prolificCode,         \* searchParams.has("prolific_code")
    \* ---- DataAnnotation / AnnotationForm component state ----
    annotSchedule,
    loading,
    description,
    \* ---- GLTF loader (useLoader cache) ----
    meshCache,            \* tasks whose mesh is loaded
    \* ---- requests in flight ----
    submissions,          \* POST /api/submit-annotation, in order of issue
    fetches,              \* POST /api/get-object-info whose continuation can still run
    \* ---- backend and history ----
    cursorTaskStored,     \* the backend stored, since the token in the URL was pushed,
                          \* an annotation of the task the token points at
    reloaded,             \* the page was reloaded since the session was opened
    \* ---- raw-buffer variant of DataAnnotation (part_004) ----
    viewerPage,           \* "task": mounted at "/"; "done"
    viewerParams,         \* the task in searchParams (object_category, object_id, grasp_id)
    meshData,             \* useState(null): the task whose mesh is on display
    viewerLoading,        \* useState(false)
    meshLoads,            \* POST /api/get-mesh-data in flight: the tasks asked for
    infoFetches,          \* POST /api/get-object-info in flight
    \* ---- AnnotationForm on its own (AnnotationForm.js) ----
    formVariant,          \* 1: the form of lines 1-118, 2: the form of lines 120-257
    formProps,            \* category, object_id, grasp_id
    formProlific,         \* prolific_code is given
    formMounted,
    formMounts,           \* times the form was mounted so far
    formDescription,      \* useState('') description
    isMalformed,
    isInvalidGrasp,
    userID,               \* useState("")
    storedUserId,         \* localStorage "user_id" (<<>>: none)
    mintedIds,            \* calls of uuidv4() so far
    handleSubmitCalls,    \* invocations of handleSubmit so far
    postsIssued,          \* fetch(endpoint, POST) calls so far
    postsInFlight,        \* handlers waiting for the response of their POST
    alertsShown,          \* alert(...) calls so far
    awaitingFetchMesh,    \* handlers past the form reset, waiting in await fetchMesh()
    clock,                \* Date.now()
    startTime,            \* useState(null), set by the effect of lines 145-147
    taskShownAt,          \* history: Date.now() when the task on display began
    sentRecords,          \* the requests that went out
    \* ---- Mesh component (MeshViewer.js 22-53) ----
    geomPayload,          \* vertices, faces, vertex colors, normals of the payload
    geomMesh,             \* what rendering the component produced
    \* ---- tutorial overlay (DataAnnotation.js 17, 24-30; Quiz, part_003 75, 82-88) ----
    tutorialHost,         \* the mounted page that hosts the overlay, "none" when neither is
    showTutorial,         \* useState(false)
    hasSeenTutorial,      \* localStorage.getItem('hasSeenTutorial'): "null" or "true"
    tutorialMounts,       \* mounts of a hosting page so far
    tutorialClicks,       \* clicks on Show Tutorial so far
    autoPresented,        \* history: presentations made by the mount effect
    shownBy,              \* history: what opened the overlay last: "none", "effect", "button"
    \* ---- the query string under navigateToSchedule (DataAnnotation.js 40-47) ----
    locationSearch,       \* location.search without the leading "?", as code units
    tokenPushes           \* calls of navigateToSchedule so far

quizVars == <<quizVariant, currentQuestionIdx, selectedAnswer, showFeedback,
              submittedAnswers, correctAnswers, quizLocation, pendingRedirects,
              hasRejectionCode>>

codecVars == <<codecPhase, codecSchedule, codecToken, codecDecoded>>

tabVars == <<page, urlToken, annotSchedule, loading, description, fetches>>

flowVars == <<tabVars, oneshotParam, prolificCode, meshCache, submissions,
              cursorTaskStored, reloaded>>

viewerVars == <<viewerPage, viewerParams, meshData, viewerLoading, meshLoads, infoFetches>>

formVars == <<formVariant, formProps, formProlific, formMounted, formMounts, formDescription,
              isMalformed, isInvalidGrasp, userID, storedUserId, mintedIds,
              handleSubmitCalls, postsIssued, postsInFlight, alertsShown,
              awaitingFetchMesh, clock, startTime, taskShownAt, sentRecords>>

geomVars == <<geomPayload, geomMesh>>

tutorialVars == <<tutorialHost, showTutorial, hasSeenTutorial, tutorialMounts,
                  tutorialClicks, autoPresented, shownBy>>

searchVars == <<locationSearch, tokenPushes>>

vars == <<quizVars, codecVars, flowVars, viewerVars, formVars, geomVars, tutorialVars,
          searchVars>>

(***************************************************************************)
(* Text: a JavaScript string is the sequence of its UTF-16 code units.     *)
(* The results of operations that can throw are records                    *)
(* [ok, val, err]: err names the exception.                                *)
(***************************************************************************)
Ok(v) == [ok |-> TRUE, val |-> v, err |-> "none"]

Err(e) == [ok |-> FALSE, val |-> <<>>, err |-> e]

\* F applied to the value of r, or the exception r stands for
Then(r, F(_)) == IF r.ok THEN F(r.val) ELSE r

IsDigit(c) == c \in 48..57

IsAlnum(c) == c \in (48..57) \cup (65..90) \cup (97..122)

\* hexadecimal digit of n in 0..15, upper case (percent escapes)
HexUpper(n) == IF n < 10 THEN 48 + n ELSE 55 + n

\* hexadecimal digit of n in 0..15, lower case (JSON \u escapes)
HexLower(n) == IF n < 10 THEN 48 + n ELSE 87 + n

\* value of a hexadecimal digit, -1 for any other code unit
HexValue(c) ==
    IF c \in 48..57 THEN c - 48
    ELSE IF c \in 65..70 THEN c - 55
    ELSE IF c \in 97..102 THEN c - 87
    ELSE -1

\* the concatenation of the sequences ss[lo], ..., ss[hi]
RECURSIVE FlattenRange(_, _, _)
FlattenRange(ss, lo, hi) ==
    IF lo > hi THEN <<>>
    ELSE IF lo = hi THEN ss[lo]
    ELSE LET mid == (lo + hi) \div 2
         IN  FlattenRange(ss, lo, mid) \o FlattenRange(ss, mid + 1, hi)

Flatten(ss) == FlattenRange(ss, 1, Len(ss))

(***************************************************************************)
(* JSON.stringify of a schedule { idx, annotations: [ { object_category,   *)
(* object_id, grasp_id } ... ] } (the shape documented at                  *)
(* DataAnnotation.js 72-85), keys in insertion order.                      *)
(***************************************************************************)
RECURSIVE DecimalDigits(_)
DecimalDigits(n) ==
    IF n < 10 THEN <<48 + n>>
    ELSE Append(DecimalDigits(n \div 10), 48 + (n % 10))

NumberToJSON(n) == IF n < 0 THEN <<45>> \o DecimalDigits(0 - n) ELSE DecimalDigits(n)

\* QuoteJSONString: the escape of one code unit
QuoteUnit(c) ==
    CASE c = 34 -> <<92, 34>>
      [] c = 92 -> <<92, 92>>
      [] c = 8  -> <<92, 98>>
      [] c = 9  -> <<92, 116>>
      [] c = 10 -> <<92, 110>>
      [] c = 12 -> <<92, 102>>
      [] c = 13 -> <<92, 114>>
      [] c < 32 /\ c \notin {8, 9, 10, 12, 13}
                -> <<92, 117, 48, 48, HexLower(c \div 16), HexLower(c % 16)>>
      [] OTHER  -> <<c>>

StringToJSON(s) == <<34>> \o Flatten([i \in 1..Len(s) |-> QuoteUnit(s[i])]) \o <<34>>

\* {"object_category":"...","object_id":"...","grasp_id":n}
TaskToJSON(t) ==
    <<123, 34, 111, 98, 106, 101, 99, 116, 95, 99, 97, 116, 101, 103, 111, 114, 121, 34, 58>>
    \o StringToJSON(t.object_category)
    \o <<44, 34, 111, 98, 106, 101, 99, 116, 95, 105, 100, 34, 58>>
    \o StringToJSON(t.object_id)
    \o <<44, 34, 103, 114, 97, 115, 112, 95, 105, 100, 34, 58>>
    \o NumberToJSON(t.grasp_id)
    \o <<125>>

\* the elements of an array, separated by commas
TasksToJSON(ts) ==
    Flatten([i \in 1..Len(ts) |-> (IF i > 1 THEN <<44>> ELSE <<>>) \o TaskToJSON(ts[i])])

\* {"idx":n,"annotations":[...]}
JSONStringify(schedule) ==
    <<123, 34, 105, 100, 120, 34, 58>>
    \o NumberToJSON(schedule.idx)
    \o <<44, 34, 97, 110, 110, 111, 116, 97, 116, 105, 111, 110, 115, 34, 58, 91>>
    \o TasksToJSON(schedule.annotations)
    \o <<93, 125>>

(***************************************************************************)
(* JSON.parse: values are tagged records [t, v]; an object is the sequence *)
(* of its members [k, v] in the order of the text. Numbers are integers:   *)
(* fractions and exponents are not in the alphabet of the tokens of the    *)
(* model.                                                                  *)
(***************************************************************************)
JNum(n) == [t |-> "number", v |-> n]

JStr(s) == [t |-> "string", v |-> s]

JArr(a) == [t |-> "array", v |-> a]

JObj(m) == [t |-> "object", v |-> m]

\* null, true, false
JLit(x) == [t |-> x, v |-> <<>>]

JUndefined == [t |-> "undefined", v |-> <<>>]

PFail == [ok |-> FALSE, val |-> <<>>, next |-> 0]

POk(v, n) == [ok |-> TRUE, val |-> v, next |-> n]

RECURSIVE SkipWs(_, _)
SkipWs(s, i) ==
    IF i <= Len(s) /\ s[i] \in {32, 9, 10, 13} THEN SkipWs(s, i + 1) ELSE i

RECURSIVE ParseDigits(_, _, _)
ParseDigits(s, i, acc) ==
    IF i <= Len(s) /\ IsDigit(s[i])
    THEN ParseDigits(s, i + 1, acc * 10 + (s[i] - 48))
    ELSE POk(acc, i)

ParseNumber(s, i) ==
    LET neg == s[i] = 45
        j   == IF neg THEN i + 1 ELSE i
    IN  IF j > Len(s) \/ ~IsDigit(s[j]) THEN PFail
        ELSE LET d == IF s[j] = 48 THEN POk(0, j + 1) ELSE ParseDigits(s, j, 0)
             IN  IF d.next <= Len(s) /\ s[d.next] \in {46, 69, 101} THEN PFail
                 ELSE POk(JNum(IF neg THEN 0 - d.val ELSE d.val), d.next)

\* the code unit of a two-character escape \e, -1 when \e is no escape
SimpleEscape(e) ==
    CASE e = 34  -> 34
      [] e = 92  -> 92
      [] e = 47  -> 47
      [] e = 98  -> 8
      [] e = 102 -> 12
      [] e = 110 -> 10
      [] e = 114 -> 13
      [] e = 116 -> 9
      [] OTHER   -> -1

\* the string after its opening quote
RECURSIVE ParseStringBody(_, _, _)
ParseStringBody(s, i, acc) ==
    IF i > Len(s) THEN PFail
    ELSE IF s[i] = 34 THEN POk(JStr(acc), i + 1)
    ELSE IF s[i] < 32 THEN PFail
    ELSE IF s[i] # 92 THEN ParseStringBody(s, i + 1, Append(acc, s[i]))
    ELSE IF i + 1 > Len(s) THEN PFail
    ELSE IF s[i + 1] = 117
         THEN IF i + 5 > Len(s) \/ \E k \in 2..5 : HexValue(s[i + k]) < 0 THEN PFail
              ELSE ParseStringBody(s, i + 6,
                       Append(acc, 4096 * HexValue(s[i + 2]) + 256 * HexValue(s[i + 3])
                                   + 16 * HexValue(s[i + 4]) + HexValue(s[i + 5])))
         ELSE IF SimpleEscape(s[i + 1]) < 0 THEN PFail
              ELSE ParseStringBody(s, i + 2, Append(acc, SimpleEscape(s[i + 1])))

\* whether the text at i starts with the literal lit
HasLiteral(s, i, lit) ==
    /\ i + Len(lit) - 1 <= Len(s)
    /\ SubSeq(s, i, i + Len(lit) - 1) = lit

\* The parser passes each intermediate result on as an argument of the
\* operator that continues with it.
RECURSIVE ParseValue(_, _), ParseElements(_, _, _), ParseMembers(_, _, _)

\* after an element, at the white space skipped: ] ends the array, a comma
\* continues it
ElementsNext(s, j, acc) ==
    IF j > Len(s) THEN PFail
    ELSE IF s[j] = 93 THEN POk(JArr(acc), j + 1)
    ELSE IF s[j] = 44 THEN ParseElements(s, j + 1, acc)
    ELSE PFail

\* e: the result of parsing an element
ElementsAfter(s, e, acc) ==
    IF ~e.ok THEN PFail ELSE ElementsNext(s, SkipWs(s, e.next), Append(acc, e.val))

\* value { , value } ]
ParseElements(s, i, acc) == ElementsAfter(s, ParseValue(s, i), acc)

\* after a member, at the white space skipped: } ends the object, a comma
\* continues it
MembersNext(s, j, mem) ==
    IF j > Len(s) THEN PFail
    ELSE IF s[j] = 125 THEN POk(JObj(mem), j + 1)
    ELSE IF s[j] = 44 THEN ParseMembers(s, j + 1, mem)
    ELSE PFail

\* key: the parsed name, e: the result of parsing the value of the member
MemberAfterValue(s, key, e, acc) ==
    IF ~e.ok THEN PFail
    ELSE MembersNext(s, SkipWs(s, e.next), Append(acc, [k |-> key.val.v, v |-> e.val]))

\* c: the place of the colon
MemberColon(s, key, c, acc) ==
    IF c > Len(s) \/ s[c] # 58 THEN PFail
    ELSE MemberAfterValue(s, key, ParseValue(s, c + 1), acc)

\* key: the result of parsing the name
MemberAfterKey(s, key, acc) ==
    IF ~key.ok THEN PFail ELSE MemberColon(s, key, SkipWs(s, key.next), acc)

\* i: the place of the opening quote of the name
MemberAt(s, i, acc) ==
    IF i > Len(s) \/ s[i] # 34 THEN PFail
    ELSE MemberAfterKey(s, ParseStringBody(s, i + 1, <<>>), acc)

\* string : value { , string : value } }
ParseMembers(s, start, acc) == MemberAt(s, SkipWs(s, start), acc)

\* after {
ObjectFrom(s, j) ==
    IF j <= Len(s) /\ s[j] = 125 THEN POk(JObj(<<>>), j + 1) ELSE ParseMembers(s, j, <<>>)

\* after [
ArrayFrom(s, j) ==
    IF j <= Len(s) /\ s[j] = 93 THEN POk(JArr(<<>>), j + 1) ELSE ParseElements(s, j, <<>>)

\* the value whose first character is at i
ValueAt(s, i) ==
    IF i > Len(s) THEN PFail
    ELSE IF s[i] = 123 THEN ObjectFrom(s, SkipWs(s, i + 1))
    ELSE IF s[i] = 91 THEN ArrayFrom(s, SkipWs(s, i + 1))
    ELSE IF s[i] = 34 THEN ParseStringBody(s, i + 1, <<>>)
    ELSE IF s[i] = 45 \/ IsDigit(s[i]) THEN ParseNumber(s, i)
    ELSE IF HasLiteral(s, i, <<110, 117, 108, 108>>) THEN POk(JLit("null"), i + 4)
    ELSE IF HasLiteral(s, i, <<116, 114, 117, 101>>) THEN POk(JLit("true"), i + 4)
    ELSE IF HasLiteral(s, i, <<102, 97, 108, 115, 101>>) THEN POk(JLit("false"), i + 5)
    ELSE PFail

ParseValue(s, start) == ValueAt(s, SkipWs(s, start))

\* r: the result of parsing the value at the start of the text; only white
\* space may follow it
WholeText(s, r) ==
    IF r.ok /\ SkipWs(s, r.next) > Len(s) THEN Ok(r.val) ELSE Err("SyntaxError")

JSONParse(s) == WholeText(s, ParseValue(s, 1))

\* property read obj[key] of a parsed value: the last member of that name,
\* undefined when there is none (or obj is no object)
RECURSIVE GetFrom(_, _, _)
GetFrom(m, key, i) ==
    IF i < 1 THEN JUndefined
    ELSE IF m[i].k = key THEN m[i].v ELSE GetFrom(m, key, i - 1)

JGet(obj, key) == IF obj.t = "object" THEN GetFrom(obj.v, key, Len(obj.v)) ELSE JUndefined

\* whether a parsed value has the shape of a task
IsTaskShaped(j) ==
    /\ j.t = "object"
    /\ JGet(j, <<111, 98, 106, 101, 99, 116, 95, 99, 97, 116, 101, 103, 111, 114, 121>>).t = "string"
    /\ JGet(j, <<111, 98, 106, 101, 99, 116, 95, 105, 100>>).t = "string"
    /\ JGet(j, <<103, 114, 97, 115, 112, 95, 105, 100>>).t = "number"

\* the task record of a task-shaped value
TaskOf(j) ==
    [object_category |->
        JGet(j, <<111, 98, 106, 101, 99, 116, 95, 99, 97, 116, 101, 103, 111, 114, 121>>).v,
     object_id |-> JGet(j, <<111, 98, 106, 101, 99, 116, 95, 105, 100>>).v,
     grasp_id  |-> JGet(j, <<103, 114, 97, 115, 112, 95, 105, 100>>).v]

\* whether a parsed value has the documented shape of a schedule
IsScheduleShaped(j) ==
    /\ j.t = "object"
    /\ JGet(j, <<105, 100, 120>>).t = "number"
    /\ JGet(j, <<97, 110, 110, 111, 116, 97, 116, 105, 111, 110, 115>>).t = "array"
    /\ LET a == JGet(j, <<97, 110, 110, 111, 116, 97, 116, 105, 111, 110, 115>>).v
       IN  \A i \in 1..Len(a) : IsTaskShaped(a[i])

\* the schedule record of a schedule-shaped value
ScheduleOf(j) ==
    LET a == JGet(j, <<97, 110, 110, 111, 116, 97, 116, 105, 111, 110, 115>>).v
    IN  [idx |-> JGet(j, <<105, 100, 120>>).v,
         annotations |-> [i \in 1..Len(a) |-> TaskOf(a[i])]]

(***************************************************************************)
(* btoa / atob (HTML "forgiving-base64"), encodeURIComponent /             *)
(* decodeURIComponent (ECMAScript), and the application/x-www-form-        *)
(* urlencoded form in which URLSearchParams writes and reads a value.      *)
(* Code units are in the Basic Multilingual Plane, no surrogates.          *)
(***************************************************************************)
\* the base64 character of a 6-bit value
B64Char(n) ==
    IF n < 26 THEN 65 + n
    ELSE IF n < 52 THEN 97 + (n - 26)
    ELSE IF n < 62 THEN 48 + (n - 52)
    ELSE IF n = 62 THEN 43 ELSE 47

\* the 6-bit value of a base64 character, -1 for any other code unit
B64Value(c) ==
    IF c \in 65..90 THEN c - 65
    ELSE IF c \in 97..122 THEN c - 97 + 26
    ELSE IF c \in 48..57 THEN c - 48 + 52
    ELSE IF c = 43 THEN 62
    ELSE IF c = 47 THEN 63
    ELSE -1

\* the four characters of the g-th group of three bytes (= pads a short last group)
B64Group(b, g) ==
    LET i == 3 * g - 2
        n == Len(b) - i + 1
    IN  IF n = 1
        THEN << B64Char(b[i] \div 4), B64Char((b[i] % 4) * 16), 61, 61 >>
        ELSE IF n = 2
        THEN << B64Char(b[i] \div 4),
                B64Char((b[i] % 4) * 16 + (b[i + 1] \div 16)),
                B64Char((b[i + 1] % 16) * 4), 61 >>
        ELSE << B64Char(b[i] \div 4),
                B64Char((b[i] % 4) * 16 + (b[i + 1] \div 16)),
                B64Char((b[i + 1] % 16) * 4 + (b[i + 2] \div 64)),
                B64Char(b[i + 2] % 64) >>

\* btoa throws InvalidCharacterError on a code unit above 0xFF
btoa(str) ==
    IF \E i \in 1..Len(str) : str[i] > 255 THEN Err("InvalidCharacterError")
    ELSE Ok(Flatten([g \in 1..((Len(str) + 2) \div 3) |-> B64Group(str, g)]))

\* the bytes of the g-th group of four characters (a last group of 2 or 3
\* characters gives 1 or 2 bytes)
B64Ungroup(c, g) ==
    LET i  == 4 * g - 3
        n  == Len(c) - i + 1
        v1 == B64Value(c[i])
        v2 == B64Value(c[i + 1])
    IN  IF n = 2 THEN << v1 * 4 + (v2 \div 16) >>
        ELSE LET v3 == B64Value(c[i + 2])
             IN  IF n = 3
                 THEN << v1 * 4 + (v2 \div 16), (v2 % 16) * 16 + (v3 \div 4) >>
                 ELSE << v1 * 4 + (v2 \div 16), (v2 % 16) * 16 + (v3 \div 4),
                         (v3 % 4) * 64 + B64Value(c[i + 3]) >>

\* atob: ASCII whitespace removed, one or two trailing = dropped when the
\* length is a multiple of 4; throws on length % 4 = 1 and on any code unit
\* outside the alphabet
atob(str) ==
    LET nows == SelectSeq(str, LAMBDA c : c \notin {9, 10, 12, 13, 32})
        n    == Len(nows)
        data == IF n > 0 /\ n % 4 = 0 /\ nows[n] = 61
                THEN IF nows[n - 1] = 61 THEN SubSeq(nows, 1, n - 2)
                     ELSE SubSeq(nows, 1, n - 1)
                ELSE nows
    IN  IF Len(data) % 4 = 1 \/ \E i \in 1..Len(data) : B64Value(data[i]) < 0
        THEN Err("InvalidCharacterError")
        ELSE Ok(Flatten([g \in 1..((Len(data) + 3) \div 4) |-> B64Ungroup(data, g)]))

\* the UTF-8 bytes of a code unit
Utf8Bytes(c) ==
    IF c < 128 THEN <<c>>
    ELSE IF c < 2048 THEN << 192 + (c \div 64), 128 + (c % 64) >>
    ELSE << 224 + (c \div 4096), 128 + ((c \div 64) % 64), 128 + (c % 64) >>

\* %XX
PercentByte(b) == << 37, HexUpper(b \div 16), HexUpper(b % 16) >>

\* the escapes of the UTF-8 bytes of a code unit
PercentUnit(c) ==
    LET bs == Utf8Bytes(c) IN Flatten([i \in 1..Len(bs) |-> PercentByte(bs[i])])

\* the code units encodeURIComponent leaves as they are: A-Z a-z 0-9 - _ . ! ~ * ' ( )
UriUnreserved(c) == IsAlnum(c) \/ c \in {45, 95, 46, 33, 126, 42, 39, 40, 41}

encodeURIComponent(str) ==
    Flatten([i \in 1..Len(str) |->
                IF UriUnreserved(str[i]) THEN <<str[i]>> ELSE PercentUnit(str[i])])

\* the byte of the escape %XX at i, -1 when there is no well-formed escape
EscapedByte(str, i) ==
    IF i >= 1 /\ i + 2 <= Len(str) /\ str[i] = 37
       /\ HexValue(str[i + 1]) >= 0 /\ HexValue(str[i + 2]) >= 0
    THEN 16 * HexValue(str[i + 1]) + HexValue(str[i + 2])
    ELSE -1

\* whether position i holds one of the two digits of a well-formed escape
InsideEscape(str, i) == EscapedByte(str, i - 1) >= 0 \/ EscapedByte(str, i - 2) >= 0

\* a continuation byte 10xxxxxx escaped at i, -1 otherwise
ContinuationByte(str, i) ==
    LET b == EscapedByte(str, i) IN IF b \in 128..191 THEN b ELSE -1

\* the code unit of the UTF-8 sequence whose first escape is at i; -1 when
\* the sequence is malformed, or when the escape at i is a continuation byte
\* (which belongs to the sequence before it, or to none)
EscapedUnit(str, i) ==
    LET b == EscapedByte(str, i)
    IN  IF b < 128 THEN b
        ELSE IF b \in 194..223
             THEN LET c1 == ContinuationByte(str, i + 3)
                  IN  IF c1 < 0 THEN -1 ELSE (b - 192) * 64 + (c1 - 128)
        ELSE IF b \in 224..239
             THEN LET c1 == ContinuationByte(str, i + 3)
                      c2 == ContinuationByte(str, i + 6)
                      u  == (b - 224) * 4096 + (c1 - 128) * 64 + (c2 - 128)
                  IN  IF c1 < 0 \/ c2 < 0 \/ u < 2048 \/ u \in 55296..57343 THEN -1 ELSE u
        ELSE -1

\* whether the escape at i is a continuation byte of the well-formed
\* sequence that starts one or two escapes before it
ContinuesSequence(str, i) ==
    /\ ContinuationByte(str, i) >= 0
    /\ \/ EscapedByte(str, i - 3) \in 194..239 /\ EscapedUnit(str, i - 3) >= 0
       \/ EscapedByte(str, i - 6) \in 224..239 /\ EscapedUnit(str, i - 6) >= 0

\* decodeURIComponent throws URIError on a malformed escape or malformed UTF-8
decodeURIComponent(str) ==
    IF \E i \in 1..Len(str) :
          /\ str[i] = 37
          /\ \/ EscapedByte(str, i) < 0
             \/ EscapedUnit(str, i) < 0 /\ ~ContinuesSequence(str, i)
    THEN Err("URIError")
    ELSE Ok(Flatten([i \in 1..Len(str) |->
                IF str[i] = 37
                THEN IF ContinuesSequence(str, i) THEN <<>> ELSE <<EscapedUnit(str, i)>>
                ELSE IF InsideEscape(str, i) THEN <<>> ELSE <<str[i]>>]))

\* URLSearchParams.toString() of one value: A-Z a-z 0-9 * - . _ kept,
\* space written as +, every other byte as %XX
FormSerialize(str) ==
    Flatten([i \in 1..Len(str) |->
                IF IsAlnum(str[i]) \/ str[i] \in {42, 45, 46, 95} THEN <<str[i]>>
                ELSE IF str[i] = 32 THEN <<43>>
                ELSE PercentUnit(str[i])])

\* the value URLSearchParams reads back from the query string: + is a
\* space, a well-formed %XX is its byte, anything else stands for itself
\* (bytes above 0x7F do not occur in a serialized token)
FormParse(str) ==
    Flatten([i \in 1..Len(str) |->
                IF str[i] = 43 THEN <<32>>
                ELSE IF EscapedByte(str, i) >= 0 THEN <<EscapedByte(str, i)>>
                ELSE IF InsideEscape(str, i) THEN <<>>
                ELSE <<str[i]>>])

(***************************************************************************)
(* The schedule token (DataAnnotation.js 32-47, 87-98)                     *)
(***************************************************************************)
\* encodeStr = (str) => encodeURIComponent(btoa(str))
encodeStr(str) == Then(btoa(str), LAMBDA b : Ok(encodeURIComponent(b)))

\* decodeStr = (str) => atob(decodeURIComponent(str))
decodeStr(str) == Then(decodeURIComponent(str), atob)

\* the value of annotation_schedule that navigateToSchedule(schedule)
\* leaves in the location: searchParams.set(..., encodeStr(JSON.stringify(
\* schedule))), written with searchParams.toString() and read back by
\* useSearchParams
ScheduleToken(schedule) ==
    Then(encodeStr(JSONStringify(schedule)), LAMBDA e : Ok(FormParse(FormSerialize(e))))

\* JSON.parse(decodeStr(searchParams.get("annotation_schedule")))
ParseToken(token) == Then(decodeStr(token), JSONParse)

\* schedule.idx of a parsed value that has no idx member (undefined): not a
\* number, every comparison with it is false. No token of the model carries
\* this number as its idx.
UndefinedIdx == -2

\* const idx = schedule.idx; ... schedule.annotations.length: reading a
\* property of null, or length of a missing (or null) annotations, throws
ReadsThrow(j) ==
    \/ j.t = "null"
    \/ JGet(j, <<97, 110, 110, 111, 116, 97, 116, 105, 111, 110, 115>>).t
          \in {"undefined", "null"}

\* the schedule object the effect holds after JSON.parse, as a schedule
\* record: idx a number or missing, annotations an array of tasks (the
\* parsed values of the tokens of the model have no other members)
ParsedSchedule(j) ==
    [idx |-> CASE JGet(j, <<105, 100, 120>>).t = "number" -> JGet(j, <<105, 100, 120>>).v
               [] JGet(j, <<105, 100, 120>>).t = "undefined" -> UndefinedIdx,
     annotations |->
        CASE JGet(j, <<97, 110, 110, 111, 116, 97, 116, 105, 111, 110, 115>>).t = "array" ->
               [i \in 1..Len(JGet(j, <<97, 110, 110, 111, 116, 97, 116, 105, 111, 110, 115>>).v)
                   |-> TaskOf(JGet(j, <<97, 110, 110, 111, 116, 97, 116, 105, 111, 110, 115>>).v[i])]]

ReadSchedule(j) == IF ReadsThrow(j) THEN Err("TypeError") ELSE Ok(ParsedSchedule(j))

\* lines 90-92 of the decode effect: the parsed schedule, or the exception
\* of decodeURIComponent, atob, JSON.parse or a property read
EffectDecode(token) == Then(ParseToken(token), ReadSchedule)

\* if (idx >= schedule.annotations.length || idx < 0): false for an idx
\* that is not a number
IndexRejected(schedule) ==
    /\ schedule.idx # UndefinedIdx
    /\ (schedule.idx >= Len(schedule.annotations) \/ schedule.idx < 0)

(***************************************************************************)
(* Values shared by the specifications                                     *)
(***************************************************************************)
\* annotSchedule before any schedule is decoded (useState(null))
NoSchedule == [idx |-> -1, annotations |-> <<>>]

\* searchParams.get(...) of a parameter that is absent (null)
NoParam == <<-1>>

\* the i-th task of the backend: categories "Mug" and "Pan", object ids
\* "a1", "b2", ..., grasp ids 0, 17, 34, ...
Task(i) ==
    [object_category |-> IF i % 2 = 1 THEN <<77, 117, 103>> ELSE <<80, 97, 110>>,
     object_id       |-> <<96 + i, 48 + i>>,
     grasp_id        |-> 17 * (i - 1)]

\* the state of the codec while another component is checked
CodecIdle ==
    /\ codecPhase = "input"
    /\ codecSchedule = NoSchedule
    /\ codecToken = Err("none")
    /\ codecDecoded = Err("none")

\* the state of the workflow while another component is checked
FlowIdle ==
    /\ page = "done"
    /\ urlToken = NoParam
    /\ oneshotParam = FALSE
    /\ prolificCode = FALSE
    /\ annotSchedule = NoSchedule
    /\ loading = FALSE
    /\ description = <<>>
    /\ meshCache = {}
    /\ submissions = <<>>
    /\ fetches = 0
    /\ cursorTaskStored = FALSE
    /\ reloaded = FALSE

\* no task (searchParams without the three parameters, meshData null)
NoTask == [object_category |-> <<>>, object_id |-> <<>>, grasp_id |-> -1]

\* the state of the raw-buffer variant while another component is checked
ViewerIdle ==
    /\ viewerPage = "done"
    /\ viewerParams = NoTask
    /\ meshData = NoTask
    /\ viewerLoading = FALSE
    /\ meshLoads = <<>>
    /\ infoFetches = 0

\* grasp_id of a task that has none (null / undefined)
NoGraspId == -1

\* a key the request body does not have
NoField == <<-2>>

\* the props of the form: a category, an object id and a grasp id, each
\* present or absent; grasp id 0 is a present grasp id
FormPropsSet ==
    { [category |-> <<77>>, object_id |-> <<97>>, grasp_id |-> 0],
      [category |-> <<77>>, object_id |-> <<97>>, grasp_id |-> 17],
      [category |-> <<77>>, object_id |-> <<97>>, grasp_id |-> NoGraspId],
      [category |-> <<>>,   object_id |-> <<97>>, grasp_id |-> 17],
      [category |-> <<77>>, object_id |-> <<>>,   grasp_id |-> 17],
      [category |-> <<>>,   object_id |-> <<>>,   grasp_id |-> NoGraspId] }

\* the props of the tasks that follow a submission
NextTaskProps ==
    { [category |-> <<77>>, object_id |-> <<97>>, grasp_id |-> 0],
      [category |-> <<77>>, object_id |-> <<97>>, grasp_id |-> 17] }

\* what the reviewer types into the description field
FormTexts == {<<>>, <<111, 107>>}

\* what the reviewer types into the user id field
TypedUserIds == {<<>>, <<112>>}

\* the n-th value uuidv4() returns: "u1", "u2", ...
uuidv4(n) == <<117, 48 + n>>

\* the state of the form while another component is checked
FormIdle ==
    /\ formVariant = 2
    /\ formProps = [category |-> <<>>, object_id |-> <<>>, grasp_id |-> NoGraspId]
    /\ formProlific = FALSE
    /\ formMounted = FALSE
    /\ formMounts = 0
    /\ formDescription = <<>>
    /\ isMalformed = FALSE
    /\ isInvalidGrasp = FALSE
    /\ userID = <<>>
    /\ storedUserId = <<>>
    /\ mintedIds = 0
    /\ handleSubmitCalls = 0
    /\ postsIssued = 0
    /\ postsInFlight = 0
    /\ alertsShown = 0
    /\ awaitingFetchMesh = 0
    /\ clock = 0
    /\ startTime = 0
    /\ taskShownAt = 0
    /\ sentRecords = {}

\* the state of the Mesh component while another component is checked
GeomIdle ==
    /\ geomPayload = [vertices |-> <<>>, faces |-> <<>>, vertexColors |-> NoField,
                      normals |-> NoField]
    /\ geomMesh = Err("none")

\* what localStorage.getItem returns for a key that was never set
NoItem == "null"

\* the state of the tutorial overlay while another component is checked
TutorialIdle ==
    /\ tutorialHost = "none"
    /\ showTutorial = FALSE
    /\ hasSeenTutorial = NoItem
    /\ tutorialMounts = 0
    /\ tutorialClicks = 0
    /\ autoPresented = 0
    /\ shownBy = "none"

\* the state of the query-string model while another component is checked
SearchIdle ==
    /\ locationSearch = <<>>
    /\ tokenPushes = 0

(***************************************************************************)
(* Quiz                                                                    *)
(***************************************************************************)
\* selectedAnswer before any radio is chosen (useState(null))
NoAnswer == "null"

\* QUESTIONS of the two versions of Quiz.js; of an answer only id and
\* correct are read by the handlers (correct is absent, i.e. undefined, on
\* the wrong answers: FALSE after "?? false")
QUESTIONS(v) ==
    IF v = 1
    THEN << << [id |-> "a", correct |-> FALSE], [id |-> "b", correct |-> TRUE],
               [id |-> "c", correct |-> FALSE], [id |-> "d", correct |-> FALSE] >>,
            << [id |-> "a", correct |-> FALSE], [id |-> "b", correct |-> FALSE],
               [id |-> "c", correct |-> TRUE],  [id |-> "d", correct |-> FALSE] >> >>
    ELSE << << [id |-> "a", correct |-> FALSE], [id |-> "b", correct |-> TRUE],
               [id |-> "c", correct |-> FALSE], [id |-> "d", correct |-> FALSE] >> >>

QuizVariants == {1, 2}

currentQuestion == QUESTIONS(quizVariant)[currentQuestionIdx + 1]

AnswerIds(q) == {q[i].id : i \in 1..Len(q)}

\* mutant: any listed answer counts as correct (the test of .correct lost)
IsCorrectAnyListed(q, id) == \E i \in 1..Len(q) : q[i].id = id

\* answers.find(a => a.id === id)?.correct ?? false
IsCorrect(q, id) == \E i \in 1..Len(q) : q[i].id = id /\ q[i].correct

\* answers.find(a => a.correct)?.id : the first answer marked correct
RECURSIVE FindCorrectFrom(_, _)
FindCorrectFrom(q, i) ==
    IF i > Len(q) THEN "undefined"
    ELSE IF q[i].correct THEN q[i].id ELSE FindCorrectFrom(q, i + 1)

CorrectId(q) == FindCorrectFrom(q, 1)

\* mutant: the button is never disabled
SubmitDisabledNever == FALSE

\* mutant: the button is disabled only while nothing is selected
SubmitDisabledNoSelectionOnly == selectedAnswer = NoAnswer

\* the Submit button's disabled attribute
SubmitDisabled == selectedAnswer = NoAnswer \/ selectedAnswer \in submittedAnswers

\* mutant: Continue is rendered as soon as any feedback is shown
ContinueShownOnFeedback == showFeedback

\* the condition under which the Continue / Finish button is rendered
ContinueShown == showFeedback /\ CorrectId(currentQuestion) \in submittedAnswers

\* mutant: the threshold lost (any ratio >= 0 passes)
PassTestZeroThreshold(v, correct, n) == correct >= 0

\* mutant: strict comparison with the threshold
PassTestStrict(v, correct, n) ==
    IF v = 1 THEN 2 * correct > n
    ELSE 100 * correct > 70 * n

\* the pass test of handleContinue: correctAnswers / QUESTIONS.length >= 0.5
\* in the current version, (correctAnswers / QUESTIONS.length) * 100 >= 70
\* in the earlier one
PassTest(v, correct, n) ==
    IF v = 1 THEN 2 * correct >= n
    ELSE 100 * correct >= 70 * n

\* where handleContinue sends the browser on the final question; "quiz"
\* with a pending timer when the redirect to /done is delayed by setTimeout
FinalDestination(v, correct, n, rejectionCode) ==
    IF PassTest(v, correct, n) THEN "main"
    ELSE IF v = 1
         THEN IF rejectionCode THEN "prolific_rejection" ELSE "quiz"
         ELSE "placeholder"

\* onChange of an enabled radio button
SelectAnswer(a) ==
    /\ quizLocation = "quiz"
    /\ a \in AnswerIds(currentQuestion)
    /\ a \notin submittedAnswers          \* disabled={submittedAnswers.has(answer.id)}
    /\ selectedAnswer' = a
    /\ UNCHANGED <<quizVariant, currentQuestionIdx, showFeedback, submittedAnswers,
                   correctAnswers, quizLocation, pendingRedirects, hasRejectionCode>>
    /\ UNCHANGED <<codecVars, flowVars, viewerVars, formVars, geomVars, tutorialVars, searchVars>>

\* mutant: a wrong answer takes a point away
HandleSubmitPenalising ==
    /\ quizLocation = "quiz"
    /\ selectedAnswer # NoAnswer
    /\ showFeedback' = TRUE
    /\ submittedAnswers' = submittedAnswers \cup {selectedAnswer}
    /\ correctAnswers' = IF \E i \in 1..Len(currentQuestion) :
                                currentQuestion[i].id = selectedAnswer
                                /\ currentQuestion[i].correct
                         THEN correctAnswers + 1 ELSE correctAnswers - 1
    /\ UNCHANGED <<quizVariant, currentQuestionIdx, selectedAnswer, quizLocation,
                   pendingRedirects, hasRejectionCode>>
    /\ UNCHANGED <<codecVars, flowVars, viewerVars, formVars, geomVars, tutorialVars, searchVars>>

\* the body of handleSubmit
HandleSubmit ==
    /\ quizLocation = "quiz"
    /\ selectedAnswer # NoAnswer          \* if (selectedAnswer === null) return;
    /\ showFeedback' = TRUE
    /\ submittedAnswers' = submittedAnswers \cup {selectedAnswer}
    /\ correctAnswers' = IF IsCorrect(currentQuestion, selectedAnswer)
                         THEN correctAnswers + 1 ELSE correctAnswers
    /\ UNCHANGED <<quizVariant, currentQuestionIdx, selectedAnswer, quizLocation,
                   pendingRedirects, hasRejectionCode>>
    /\ UNCHANGED <<codecVars, flowVars, viewerVars, formVars, geomVars, tutorialVars, searchVars>>

\* mutant: the next question keeps the answers submitted on this one
HandleContinueKeepingAnswers ==
    /\ quizLocation = "quiz"
    /\ IF currentQuestionIdx = Len(QUESTIONS(quizVariant)) - 1
       THEN LET dest == FinalDestination(quizVariant, correctAnswers,
                                         Len(QUESTIONS(quizVariant)), hasRejectionCode)
            IN  /\ quizLocation' = dest
                /\ pendingRedirects' = IF dest = "quiz" THEN pendingRedirects + 1
                                       ELSE pendingRedirects
                /\ dest = "quiz" => pendingRedirects < MaxPendingRedirects
                /\ UNCHANGED <<currentQuestionIdx, selectedAnswer, showFeedback,
                               submittedAnswers>>
       ELSE /\ currentQuestionIdx' = currentQuestionIdx + 1
            /\ selectedAnswer' = NoAnswer
            /\ UNCHANGED <<showFeedback, submittedAnswers, quizLocation, pendingRedirects>>
    /\ UNCHANGED <<quizVariant, correctAnswers, hasRejectionCode>>
    /\ UNCHANGED <<codecVars, flowVars, viewerVars, formVars, geomVars, tutorialVars, searchVars>>

\* mutant: the index moves on at the last question too
HandleContinueCountingLast ==
    /\ quizLocation = "quiz"
    /\ IF currentQuestionIdx = Len(QUESTIONS(quizVariant)) - 1
       THEN LET dest == FinalDestination(quizVariant, correctAnswers,
                                         Len(QUESTIONS(quizVariant)), hasRejectionCode)
            IN  /\ quizLocation' = dest
                /\ pendingRedirects' = IF dest = "quiz" THEN pendingRedirects + 1
                                       ELSE pendingRedirects
                /\ dest = "quiz" => pendingRedirects < MaxPendingRedirects
                /\ currentQuestionIdx' = currentQuestionIdx + 1
                /\ UNCHANGED <<selectedAnswer, showFeedback, submittedAnswers>>
       ELSE /\ currentQuestionIdx' = currentQuestionIdx + 1
            /\ selectedAnswer' = NoAnswer
            /\ showFeedback' = FALSE
            /\ submittedAnswers' = {}
            /\ UNCHANGED <<quizLocation, pendingRedirects>>
    /\ UNCHANGED <<quizVariant, correctAnswers, hasRejectionCode>>
    /\ UNCHANGED <<codecVars, flowVars, viewerVars, formVars, geomVars, tutorialVars, searchVars>>

\* the body of handleContinue
HandleContinue ==
    /\ quizLocation = "quiz"
    /\ IF currentQuestionIdx = Len(QUESTIONS(quizVariant)) - 1
       THEN LET dest == FinalDestination(quizVariant, correctAnswers,
                                         Len(QUESTIONS(quizVariant)), hasRejectionCode)
            IN  /\ quizLocation' = dest
                /\ pendingRedirects' = IF dest = "quiz" THEN pendingRedirects + 1
                                       ELSE pendingRedirects
                /\ dest = "quiz" => pendingRedirects < MaxPendingRedirects
                /\ UNCHANGED <<currentQuestionIdx, selectedAnswer, showFeedback,
                               submittedAnswers>>
       ELSE /\ currentQuestionIdx' = currentQuestionIdx + 1
            /\ selectedAnswer' = NoAnswer
            /\ showFeedback' = FALSE
            /\ submittedAnswers' = {}
            /\ UNCHANGED <<quizLocation, pendingRedirects>>
    /\ UNCHANGED <<quizVariant, correctAnswers, hasRejectionCode>>
    /\ UNCHANGED <<codecVars, flowVars, viewerVars, formVars, geomVars, tutorialVars, searchVars>>

\* click on the Submit button
ClickSubmit ==
    /\ ~SubmitDisabled
    /\ HandleSubmit

\* click on the Continue / Finish button
ClickContinue ==
    /\ ContinueShown
    /\ HandleContinue

\* the callback of setTimeout(() => navigate('/done'), 3000)
RedirectTimerFires ==
    /\ pendingRedirects > 0
    /\ pendingRedirects' = pendingRedirects - 1
    /\ quizLocation' = "done"
    /\ UNCHANGED <<quizVariant, currentQuestionIdx, selectedAnswer, showFeedback,
                   submittedAnswers, correctAnswers, hasRejectionCode>>
    /\ UNCHANGED <<codecVars, flowVars, viewerVars, formVars, geomVars, tutorialVars, searchVars>>

QuizInit ==
    /\ quizVariant \in QuizVariants
    /\ currentQuestionIdx = 0
    /\ selectedAnswer = NoAnswer
    /\ showFeedback = FALSE
    /\ submittedAnswers = {}
    /\ correctAnswers = 0
    /\ quizLocation = "quiz"
    /\ pendingRedirects = 0
    /\ hasRejectionCode \in BOOLEAN
    /\ CodecIdle
    /\ FlowIdle
    /\ ViewerIdle
    /\ FormIdle
    /\ GeomIdle
    /\ TutorialIdle
    /\ SearchIdle

\* The rejection branch of handleContinue is not reachable through the
\* rendered controls (QuizRetryCounting below), so no redirect timer is ever
\* pending here; RedirectTimerFires is an action of SpecQuizHandlers.
QuizNext ==
    \/ \E a \in {"a", "b", "c", "d"} : SelectAnswer(a)
    \/ ClickSubmit
    \/ ClickContinue

SpecQuiz == QuizInit /\ [][QuizNext]_vars

\* the state of the quiz while another component is checked
QuizIdle ==
    /\ quizVariant = 1
    /\ currentQuestionIdx = 0
    /\ selectedAnswer = NoAnswer
    /\ showFeedback = FALSE
    /\ submittedAnswers = {}
    /\ correctAnswers = 0
    /\ quizLocation = "quiz"
    /\ pendingRedirects = 0
    /\ hasRejectionCode = FALSE

\* The handlers as functions of the component state: any values of the
\* state variables of their types, no rendering guard.
QuizHandlersInit ==
    /\ quizVariant \in QuizVariants
    /\ currentQuestionIdx \in 0..(Len(QUESTIONS(quizVariant)) - 1)
    /\ selectedAnswer \in AnswerIds(currentQuestion) \cup {NoAnswer}
    /\ showFeedback \in BOOLEAN
    /\ submittedAnswers \in SUBSET AnswerIds(currentQuestion)
    /\ correctAnswers \in 0..Len(QUESTIONS(quizVariant))
    /\ quizLocation = "quiz"
    /\ pendingRedirects = 0
    /\ hasRejectionCode \in BOOLEAN
    /\ CodecIdle
    /\ FlowIdle
    /\ ViewerIdle
    /\ FormIdle
    /\ GeomIdle
    /\ TutorialIdle
    /\ SearchIdle

QuizHandlersNext ==
    \/ HandleContinue
    \/ RedirectTimerFires

SpecQuizHandlers == QuizHandlersInit /\ [][QuizHandlersNext]_vars

(***************************************************************************)
(* Quiz claims                                                             *)
(***************************************************************************)
\* the final question of the running variant
OnFinalQuestion == currentQuestionIdx = Len(QUESTIONS(quizVariant)) - 1

\* the browser was sent to a rejection destination, or the delayed redirect
\* to /done was scheduled
RejectedBy(loc, timersBefore, timersAfter) ==
    \/ loc \in {"prolific_rejection", "placeholder"}
    \/ loc = "quiz" /\ timersAfter = timersBefore + 1

\* C5: with the two questions of the current quiz, Finish on the final
\* question with no correct answer counted (ratio 0 < 0.5) rejects: the
\* browser goes to the platform rejection URL, or the redirect to /done is
\* scheduled; it does not go to the main workflow. Once scheduled, the
\* redirect leads to /done.
QuizFailurePath ==
    [][ /\ (HandleContinue /\ quizVariant = 1 /\ OnFinalQuestion /\ correctAnswers = 0)
            => (/\ RejectedBy(quizLocation', pendingRedirects, pendingRedirects')
                /\ quizLocation' # "main"
                /\ quizLocation' = "prolific_rejection" <=> hasRejectionCode)
        /\ (pendingRedirects' < pendingRedirects) => quizLocation' = "done"
      ]_vars

QuizFailurePathWitness ==
    /\ quizVariant = 1
    /\ currentQuestionIdx = 1
    /\ correctAnswers = 0
    /\ quizLocation = "done"

\* C6: wrong attempts do not lower the score. Whenever Continue / Finish is
\* rendered on question i, correctAnswers = i + 1, and the quiz leaves the
\* quiz page only to the main workflow (Passed), with every question counted.
QuizRetryCounting ==
    /\ (quizLocation = "quiz" /\ ContinueShown) => correctAnswers = currentQuestionIdx + 1
    /\ quizLocation # "quiz" =>
          /\ quizLocation = "main"
          /\ correctAnswers = Len(QUESTIONS(quizVariant))
    /\ pendingRedirects = 0

\* question 1 right at once, question 2 wrong ("a") and then right ("c")
QuizRetryCountingWitness ==
    /\ quizVariant = 1
    /\ currentQuestionIdx = 1
    /\ submittedAnswers = {"a", "c"}
    /\ correctAnswers = 2
    /\ quizLocation = "main"

\* C7: once the selected answer is among the submitted ones, no step on the
\* same question changes correctAnswers or submittedAnswers: a second
\* submission of the same id does nothing.
QuizSubmitIdempotent ==
    [][ (currentQuestionIdx' = currentQuestionIdx /\ selectedAnswer \in submittedAnswers)
        => (correctAnswers' = correctAnswers /\ submittedAnswers' = submittedAnswers)
      ]_vars

\* the correct answer is selected and already submitted (and counted once)
QuizSubmitIdempotentWitness ==
    /\ quizLocation = "quiz"
    /\ selectedAnswer = CorrectId(currentQuestion)
    /\ selectedAnswer \in submittedAnswers
    /\ correctAnswers = currentQuestionIdx + 1

\* C8: Finish on the final question goes to the main workflow iff
\* correctAnswers / questionCount >= 0.5 and rejects otherwise, in both
\* versions of the quiz with their own question lists.
QuizPassRule ==
    [][ (HandleContinue /\ OnFinalQuestion)
        => LET n == Len(QUESTIONS(quizVariant))
           IN  /\ quizLocation' = "main" <=> 2 * correctAnswers >= n
               /\ 2 * correctAnswers < n
                    => RejectedBy(quizLocation', pendingRedirects, pendingRedirects')
      ]_vars

\* passed exactly at the threshold: one of two
QuizPassRuleWitness ==
    /\ quizVariant = 1
    /\ quizLocation = "main"
    /\ correctAnswers = 1

\* C9: the quiz leaves a question (next question, or the final decision)
\* only from a state in which the id of that question's correct answer is in
\* submittedAnswers.
QuizAdvanceGated ==
    [][ (\/ currentQuestionIdx' # currentQuestionIdx
         \/ quizLocation' # quizLocation
         \/ pendingRedirects' > pendingRedirects)
        => (\E i \in 1..Len(currentQuestion) :
               currentQuestion[i].correct /\ currentQuestion[i].id \in submittedAnswers)
      ]_vars

\* the quiz has just advanced to the second question
QuizAdvanceGatedWitness ==
    /\ quizLocation = "quiz"
    /\ currentQuestionIdx = 1
    /\ submittedAnswers = {}
    /\ correctAnswers = 1

\* the answer marked correct in QUESTIONS: b, then c (current version); b
MarkedCorrect(v, idx, id) ==
    \/ v = 1 /\ idx = 0 /\ id = "b"
    \/ v = 1 /\ idx = 1 /\ id = "c"
    \/ v = 2 /\ idx = 0 /\ id = "b"

\* C10: a submit adds the selected id to submittedAnswers, shows the
\* feedback, and adds 1 to correctAnswers iff the selected answer is the one
\* marked correct; no other step changes correctAnswers.
QuizScoringStep ==
    [][ /\ (currentQuestionIdx' = currentQuestionIdx /\ submittedAnswers' # submittedAnswers)
            => /\ selectedAnswer # NoAnswer
               /\ submittedAnswers' = submittedAnswers \cup {selectedAnswer}
               /\ showFeedback'
               /\ correctAnswers' =
                    IF MarkedCorrect(quizVariant, currentQuestionIdx, selectedAnswer)
                    THEN correctAnswers + 1 ELSE correctAnswers
        /\ correctAnswers' # correctAnswers
            => (currentQuestionIdx' = currentQuestionIdx /\ submittedAnswers' # submittedAnswers)
      ]_vars

\* a wrong and then the right answer submitted on the first question
QuizScoringStepWitness ==
    /\ quizVariant = 1
    /\ currentQuestionIdx = 0
    /\ submittedAnswers = {"a", "b"}
    /\ showFeedback
    /\ correctAnswers = 1


(***************************************************************************)
(* The token codec on its own (SpecCodec)                                  *)
(***************************************************************************)
\* tasks given to the codec: two backend tasks, and tasks whose strings
\* need escaping in JSON, in base64 padding and in the query string:
\*   a"\<LF>  /  e-acute (U+00E9)        text with quote, backslash, newline
\*   a b+c%/=?&                            characters special in a URL
\*   U+8336 (tea)                          a character outside Latin-1
CodecTasks ==
    {Task(1), Task(2),
     [object_category |-> <<97, 34, 92, 10>>, object_id |-> <<233>>, grasp_id |-> 1326],
     [object_category |-> <<97, 32, 98, 43, 99, 37, 47, 61, 63, 38>>,
      object_id |-> <<48>>, grasp_id |-> 0],
     [object_category |-> <<33590>>, object_id |-> <<116>>, grasp_id |-> 5]}

\* sequences of length n over S
SeqsOfLen(S, n) == [1..n -> S]

\* the valid schedules over a set of tasks: a non-empty list of at most
\* maxLen tasks and a cursor inside it
ValidSchedules(tasks, maxLen) ==
    UNION {{[idx |-> i, annotations |-> a] : i \in 0..(n - 1), a \in SeqsOfLen(tasks, n)}
           : n \in 1..maxLen}

\* what the decode effect makes of a token: the schedule it sets, or the
\* exception of decodeStr / JSON.parse
DecodeToken(token) ==
    Then(ParseToken(token),
         LAMBDA j : IF IsScheduleShaped(j) THEN Ok(ScheduleOf(j)) ELSE Err("shape"))

CodecInit ==
    /\ codecPhase = "input"
    /\ codecSchedule \in ValidSchedules(CodecTasks, MaxCodecLen)
    /\ codecToken = Err("none")
    /\ codecDecoded = Err("none")
    /\ QuizIdle
    /\ FlowIdle
    /\ ViewerIdle
    /\ FormIdle
    /\ GeomIdle
    /\ TutorialIdle
    /\ SearchIdle

\* navigateToSchedule(codecSchedule) up to the value left in the location
CodecEncode ==
    /\ codecPhase = "input"
    /\ codecToken' = ScheduleToken(codecSchedule)
    /\ codecPhase' = "encoded"
    /\ UNCHANGED <<codecSchedule, codecDecoded, quizVars, flowVars, viewerVars, formVars, geomVars, tutorialVars, searchVars>>

\* the decode effect on the token that was written (when encoding threw,
\* no token was written)
CodecDecode ==
    /\ codecPhase = "encoded"
    /\ codecToken.ok
    /\ codecDecoded' = DecodeToken(codecToken.val)
    /\ codecPhase' = "decoded"
    /\ UNCHANGED <<codecSchedule, codecToken, quizVars, flowVars, viewerVars, formVars, geomVars, tutorialVars, searchVars>>

CodecNext ==
    \/ CodecEncode
    \/ CodecDecode

SpecCodec == CodecInit /\ [][CodecNext]_vars

\* C3: encoding a valid schedule (non-empty list, 0 <= idx < length) yields
\* a token, and decoding that token yields the same schedule: same idx,
\* same annotations in the same order.
CodecRoundTrip ==
    /\ codecPhase = "encoded" => /\ codecToken.ok
                                 /\ DecodeToken(codecToken.val) = Ok(codecSchedule)
    /\ codecPhase = "decoded" => codecDecoded = Ok(codecSchedule)

\* the round trip of the schedules whose strings are Latin-1
CodecRoundTripLatin1 ==
    (\A i \in 1..Len(codecSchedule.annotations) :
        LET t == codecSchedule.annotations[i]
        IN  \A k \in 1..Len(t.object_category) : t.object_category[k] <= 255)
    => CodecRoundTrip


(***************************************************************************)
(* Annotation workflow (DataAnnotation.js, AnnotationForm.js)              *)
(*                                                                         *)
(* The handlers are functions of the state of the tab, the record          *)
(*   [page, urlToken, annotSchedule, loading, description, fetches];       *)
(* an action applies a handler to the current tab and stores the result.   *)
(* A handler that an await suspends is two actions: up to the request,     *)
(* and from the response on. What the second half reads from the closure   *)
(* of its render (annotSchedule) travels with the request.                 *)
(***************************************************************************)
\* the first n tasks of the backend
FirstTasks(n) == [k \in 1..n |-> Task(k)]

\* the schedules a session is opened with: the first n backend tasks, the
\* cursor on the first (the cursor moves on from there)
InitialSchedules == {[idx |-> 0, annotations |-> FirstTasks(n)] : n \in 1..MaxScheduleLen}

\* the tasks POST /api/get-object-info answers with
BackendTasks == {Task(1), Task(2)}

\* the schedule fetchObjectInfo builds from a response
FetchedSchedule(t) == [idx |-> 0, annotations |-> <<t>>]

\* The objects given to navigateToSchedule in the model (the cursor up to
\* the length of the list) and their tokens, computed once:
\* TokenOf is ScheduleToken, DecodedOf is DecodeToken on these.
FlowSchedules ==
    UNION {{[idx |-> i, annotations |-> FirstTasks(n)] : i \in 0..n} : n \in 1..MaxScheduleLen}
    \cup {FetchedSchedule(t) : t \in BackendTasks}

FlowTokens == [schedule \in FlowSchedules |-> ScheduleToken(schedule)]

\* URLs a session can be opened with whose token is no valid schedule:
\*   the cursor past the end, the cursor negative, an empty task list
OutOfRangeSchedules ==
    {[idx |-> 1, annotations |-> FirstTasks(1)],
     [idx |-> -1, annotations |-> FirstTasks(1)],
     [idx |-> 0, annotations |-> <<>>]}

\*   {"annotations":[t1]} (no idx), {"idx":0} (no annotations), { (no JSON)
MalformedTexts ==
    {<<123, 34, 97, 110, 110, 111, 116, 97, 116, 105, 111, 110, 115, 34, 58, 91>>
        \o TasksToJSON(FirstTasks(1)) \o <<93, 125>>,
     <<123, 34, 105, 100, 120, 34, 58, 48, 125>>,
     <<123>>}

\*   % (no URI escape), e (no base64)
CorruptTokens == {<<37>>, <<101>>}

InvalidTokens ==
    {ScheduleToken(schedule).val : schedule \in OutOfRangeSchedules}
    \cup {encodeStr(text).val : text \in MalformedTexts}
    \cup CorruptTokens

FlowDecoded == [token \in {FlowTokens[schedule].val : schedule \in FlowSchedules}
                          \cup InvalidTokens
                    |-> EffectDecode(token)]

TokenOf(schedule) == FlowTokens[schedule]

DecodedOf(token) == FlowDecoded[token]

\* the tab as a record
Tab ==
    [page |-> page, urlToken |-> urlToken, annotSchedule |-> annotSchedule,
     loading |-> loading, description |-> description, fetches |-> fetches]

\* the tab variables after a handler; a token that differs from the one
\* before points at a task of which nothing was stored since
TabBecomes(c) ==
    /\ page' = c.page
    /\ urlToken' = c.urlToken
    /\ annotSchedule' = c.annotSchedule
    /\ loading' = c.loading
    /\ description' = c.description
    /\ fetches' = c.fetches
    /\ cursorTaskStored' = (cursorTaskStored /\ c.urlToken = urlToken)

\* mutant: only oneshot=true makes the session one-shot
oneshotWithoutPlatform == oneshotParam

\* const oneshot = searchParams.get('oneshot') === 'true' || searchParams.has("prolific_code")
oneshot == oneshotParam \/ prolificCode

\* annotInfo = annotSchedule ? annotSchedule.annotations[annotSchedule.idx] : null
HasAnnotInfo(schedule) ==
    schedule # NoSchedule /\ (schedule.idx + 1) \in DOMAIN schedule.annotations

annotInfo(schedule) == schedule.annotations[schedule.idx + 1]

\* AnnotationForm: isDisabled = !category || !object_id || grasp_id == null
isDisabled(schedule) ==
    \/ ~HasAnnotInfo(schedule)
    \/ annotInfo(schedule).object_category = <<>>
    \/ annotInfo(schedule).object_id = <<>>

\* mutant: the effect of GLTFMesh never clears loading
RenderNeverClearing(c, cache) == c

\* A render of DataAnnotation. GLTFMesh is declared in the body of the
\* component, so every render mounts it anew: with the mesh of annotInfo in
\* the loader cache its effect runs and sets loading to false; otherwise
\* useLoader suspends it until the mesh is loaded.
Render(c, cache) ==
    IF c.page = "task" /\ HasAnnotInfo(c.annotSchedule)
                       /\ annotInfo(c.annotSchedule) \in cache
    THEN [c EXCEPT !.loading = FALSE]
    ELSE c

\* the tab once DataAnnotation is gone: "done" and the platform URL carry
\* no query string; "error" keeps the URL
Unmounted(c, p) ==
    [c EXCEPT !.page = p,
              !.urlToken = IF p = "error" THEN @ ELSE NoParam,
              !.annotSchedule = NoSchedule,
              !.loading = FALSE,
              !.description = <<>>,
              !.fetches = IF p = "prolific" THEN 0 ELSE @]

\* the decode effect after setLoading(true), d the result of
\* JSON.parse(decodeStr(...)): an exception is not caught (React unmounts
\* the tree); a cursor out of range is reported and the schedule in memory
\* kept
SetDecoded(c, d) ==
    IF ~d.ok THEN Unmounted(c, "error")
    ELSE IF IndexRejected(d.val)
         THEN [c EXCEPT !.loading = TRUE]
         ELSE [c EXCEPT !.loading = TRUE, !.annotSchedule = d.val]

\* getProgress(): { completed: 0, total: 0 } without a schedule, otherwise
\* { completed: idx, total: annotations.length }
\* mutant: the task under way counts as completed
getProgressCountingCurrent(schedule) ==
    IF schedule = NoSchedule THEN [completed |-> 0, total |-> 0]
    ELSE [completed |-> schedule.idx + 1, total |-> Len(schedule.annotations)]

getProgress(schedule) ==
    IF schedule = NoSchedule THEN [completed |-> 0, total |-> 0]
    ELSE [completed |-> schedule.idx, total |-> Len(schedule.annotations)]

\* mutant: the effect decodes without testing searchParams.has(...): the
\* absent parameter (null) is no token and JSON.parse throws
DecodeEffectUnguarded(c) ==
    IF c.urlToken = NoParam THEN Unmounted(c, "error")
    ELSE SetDecoded(c, DecodedOf(c.urlToken))

\* the effect on [searchParams]
DecodeEffect(c) ==
    IF c.urlToken = NoParam THEN c ELSE SetDecoded(c, DecodedOf(c.urlToken))

\* mutant: the mount also requests a task from the backend
MountFetching(c, cache) ==
    Render(DecodeEffect([c EXCEPT !.page = "task",
                                  !.annotSchedule = NoSchedule,
                                  !.loading = FALSE,
                                  !.description = <<>>,
                                  !.fetches = @ + 1]), cache)

\* DataAnnotation mounted at "/" with the token of c: fresh component
\* state, the decode effect, the render
Mount(c, cache) ==
    Render(DecodeEffect([c EXCEPT !.page = "task",
                                  !.annotSchedule = NoSchedule,
                                  !.loading = FALSE,
                                  !.description = <<>>]), cache)

\* navigate({pathname: "/", search: searchParams.toString()}) with tok the
\* result of encodeStr: an exception of btoa ends the handler. A location
\* whose query string did not change gives the same searchParams object:
\* the decode effect does not run again. From "/done" the component mounts.
NavigateWith(c, tok, cache) ==
    IF ~tok.ok THEN c
    ELSE IF c.page = "task" /\ tok.val = c.urlToken THEN Render(c, cache)
    ELSE IF c.page = "task" THEN Render(DecodeEffect([c EXCEPT !.urlToken = tok.val]), cache)
    ELSE IF c.page = "done" THEN Mount([c EXCEPT !.urlToken = tok.val], cache)
    ELSE [c EXCEPT !.urlToken = tok.val]

\* navigateToSchedule(schedule): the token replaces annotation_schedule in
\* the searchParams of the closure (its other parameters stay)
navigateToSchedule(c, schedule, cache) == NavigateWith(c, TokenOf(schedule), cache)

\* fetchObjectInfo up to its await: setLoading(true), the request sent
fetchObjectInfo(c, cache) ==
    Render([c EXCEPT !.loading = (c.page = "task"), !.fetches = @ + 1], cache)

\* mutant: a 204 handled as a failed request
AfterFetchExhaustedAsError(r, kind, t, cache) ==
    IF kind \in {"error", "exhausted"} THEN [r EXCEPT !.loading = FALSE]
    ELSE IF kind = "failed" THEN r
    ELSE navigateToSchedule(r, FetchedSchedule(t), cache)

\* fetchObjectInfo from the response on, r the tab with the request gone
\*   "error"      !response.ok: alert, setLoading(false)
\*   "exhausted"  204: alert, navigate('/done')
\*   "failed"     fetch rejected: nothing after the await runs
\*   otherwise    the task of the response becomes a schedule of one task
AfterFetch(r, kind, t, cache) ==
    IF kind = "error" THEN [r EXCEPT !.loading = FALSE]
    ELSE IF kind = "exhausted"
         THEN IF r.page \in {"task", "done"} THEN Unmounted(r, "done") ELSE r
    ELSE IF kind = "failed" THEN r
    ELSE navigateToSchedule(r, FetchedSchedule(t), cache)

fetchObjectInfoResumes(c, kind, t, cache) ==
    AfterFetch([c EXCEPT !.fetches = @ - 1], kind, t, cache)

\* mutant: the cursor moves on by two
onFormSubmitSkipping(c, captured, cache) ==
    IF captured.idx + 1 = Len(captured.annotations)
    THEN IF ~oneshot THEN fetchObjectInfo(c, cache)
         ELSE IF prolificCode THEN Unmounted(c, "prolific")
         ELSE IF c.page \in {"task", "done"} THEN Unmounted(c, "done")
         ELSE c
    ELSE navigateToSchedule(c, [captured EXCEPT !.idx = @ + 2], cache)

\* mutant: batch exhaustion, the last task of the schedule ends the session
onFormSubmitTerminating(c, captured, cache) ==
    IF captured.idx + 1 = Len(captured.annotations)
    THEN IF prolificCode THEN Unmounted(c, "prolific")
         ELSE IF c.page \in {"task", "done"} THEN Unmounted(c, "done")
         ELSE c
    ELSE navigateToSchedule(c, [captured EXCEPT !.idx = @ + 1], cache)

\* mutant: the cursor is advanced in the component state, no token pushed
onFormSubmitAdvancingInMemory(c, captured, cache) ==
    IF captured.idx + 1 = Len(captured.annotations)
    THEN IF ~oneshot THEN fetchObjectInfo(c, cache)
         ELSE IF prolificCode THEN Unmounted(c, "prolific")
         ELSE IF c.page \in {"task", "done"} THEN Unmounted(c, "done")
         ELSE c
    ELSE IF c.page = "task"
         THEN Render([c EXCEPT !.annotSchedule = [captured EXCEPT !.idx = @ + 1]], cache)
         ELSE c

\* onFormSubmit of the render whose annotSchedule is `captured`
onFormSubmit(c, captured, cache) ==
    IF captured.idx + 1 = Len(captured.annotations)
    THEN IF ~oneshot THEN fetchObjectInfo(c, cache)
         ELSE IF prolificCode THEN Unmounted(c, "prolific")
         ELSE IF c.page \in {"task", "done"} THEN Unmounted(c, "done")
         ELSE c
    ELSE navigateToSchedule(c, [captured EXCEPT !.idx = @ + 1], cache)

\* a POST /api/submit-annotation in flight. status: "sent", then what the
\* backend did with it ("accepted": stored, "failed": not stored).
\* handler: where the handleSubmit that awaits it stands: "mounted" (its
\* form is on the page) or "unmounted" (the page was left inside the
\* application; the handler still resumes)
Submission(schedule) == [sched |-> schedule, status |-> "sent", handler |-> "mounted"]

RemoveAt(seq, i) == [k \in 1..(Len(seq) - 1) |-> IF k < i THEN seq[k] ELSE seq[k + 1]]

\* the requests that outlive the step that took the tab from page `before`
\* to page `after`: leaving "/" unmounts the forms; unloading the document
\* ends the handlers and aborts the requests the backend has not received
Surviving(subs, before, after, unloaded) ==
    IF unloaded THEN <<>>
    ELSE IF before = "task" /\ after # "task"
         THEN [k \in 1..Len(subs) |->
                  [subs[k] EXCEPT !.handler = IF @ = "mounted" THEN "unmounted" ELSE @]]
         ELSE subs

\* the oneshot parameter of AnnotationForm: DataAnnotation passes category,
\* object_id, grasp_id, the callback and prolific_code, no oneshot
\* (undefined)
formOneshot == FALSE

\* setDescription("") ... of a form that is still on the page
FormCleared(c, sub) ==
    IF sub.handler = "mounted" THEN [c EXCEPT !.description = <<>>] ELSE c

\* mutant: a failed POST ends handleSubmit (the reviewer stays on the task)
AfterSubmitBlockedByFailure(c, sub, cache) ==
    IF sub.status = "failed" THEN c
    ELSE IF ~formOneshot THEN onFormSubmit(FormCleared(c, sub), sub.sched, cache)
    ELSE IF prolificCode THEN Unmounted(c, "prolific")
    ELSE IF c.page \in {"task", "done"} THEN Unmounted(c, "done")
    ELSE c

\* handleSubmit after the try block: a form without oneshot clears itself
\* and awaits the callback of the controller (onFormSubmit); with
\* oneshot it leaves for the platform URL or for /done
AfterSubmit(c, sub, cache) ==
    IF ~formOneshot THEN onFormSubmit(FormCleared(c, sub), sub.sched, cache)
    ELSE IF prolificCode THEN Unmounted(c, "prolific")
    ELSE IF c.page \in {"task", "done"} THEN Unmounted(c, "done")
    ELSE c

\* the tab and the requests after a handler that leaves the tab as c
Becomes(c, subs) ==
    /\ c.fetches <= MaxInFlightFetches
    /\ TabBecomes(c)
    /\ submissions' = Surviving(subs, page, c.page, c.page = "prolific")

\* scripts of the document can run
ScriptsAlive == page \in {"task", "done", "error"}

\* ---- actions ----

\* click on the "Fetch Mesh" button (disabled={loading} hidden={oneshot})
ClickFetchMesh ==
    /\ page = "task"
    /\ ~loading
    /\ ~oneshot
    /\ fetches < MaxInFlightFetches
    /\ TabBecomes(fetchObjectInfo(Tab, meshCache))
    /\ UNCHANGED <<oneshotParam, prolificCode, meshCache, submissions, reloaded,
                   quizVars, codecVars, viewerVars, formVars, geomVars, tutorialVars, searchVars>>

\* a response to POST /api/get-object-info arrives
FetchResponds(kind, t) ==
    /\ ScriptsAlive
    /\ fetches > 0
    /\ Becomes(fetchObjectInfoResumes(Tab, kind, t, meshCache), submissions)
    /\ UNCHANGED <<oneshotParam, prolificCode, meshCache, reloaded, quizVars, codecVars, viewerVars, formVars, geomVars, tutorialVars, searchVars>>

\* the mesh GLTFMesh is suspended on is loaded: its effect runs
GLTFLoaded ==
    /\ page = "task"
    /\ HasAnnotInfo(annotSchedule)
    /\ annotInfo(annotSchedule) \notin meshCache
    /\ meshCache' = meshCache \cup {annotInfo(annotSchedule)}
    /\ TabBecomes(Render(Tab, meshCache \cup {annotInfo(annotSchedule)}))
    /\ UNCHANGED <<oneshotParam, prolificCode, submissions, reloaded, quizVars, codecVars, viewerVars, formVars, geomVars, tutorialVars, searchVars>>

\* the texts typed into the description field
Descriptions == {<<>>, <<111, 107>>}

\* onChange of the description field (the fieldset is disabled={isDisabled})
EditDescription(d) ==
    /\ page = "task"
    /\ ~isDisabled(annotSchedule)
    /\ d \in Descriptions
    /\ d # description
    /\ description' = d
    /\ UNCHANGED <<page, urlToken, annotSchedule, loading, fetches,
                   oneshotParam, prolificCode, meshCache, submissions,
                   cursorTaskStored, reloaded, quizVars, codecVars, viewerVars, formVars, geomVars, tutorialVars, searchVars>>

\* click on Submit: the button is disabled={isDisabled}, the description is
\* required; handleSubmit runs up to await fetch('/api/submit-annotation')
SubmitForm ==
    /\ page = "task"
    /\ ~isDisabled(annotSchedule)
    /\ description # <<>>
    /\ Len(submissions) < MaxInFlightSubmits
    /\ submissions' = Append(submissions, Submission(annotSchedule))
    /\ UNCHANGED <<tabVars, oneshotParam, prolificCode, meshCache, cursorTaskStored,
                   reloaded, quizVars, codecVars, viewerVars, formVars, geomVars, tutorialVars, searchVars>>

\* the backend handles a submission: it stores the annotation or fails
BackendHandles(i, stored) ==
    /\ i \in 1..Len(submissions)
    /\ submissions[i].status = "sent"
    /\ cursorTaskStored' = (\/ cursorTaskStored
                            \/ stored /\ TokenOf(submissions[i].sched) = Ok(urlToken))
    /\ submissions' = [submissions EXCEPT
                          ![i].status = IF stored THEN "accepted" ELSE "failed"]
    /\ UNCHANGED <<tabVars, oneshotParam, prolificCode, meshCache, reloaded,
                   quizVars, codecVars, viewerVars, formVars, geomVars, tutorialVars, searchVars>>

\* handleSubmit from the response on (a failure is reported with alert)
FormResumes(i) ==
    /\ ScriptsAlive
    /\ i \in 1..Len(submissions)
    /\ submissions[i].status \in {"accepted", "failed"}
    /\ Becomes(AfterSubmit(Tab, submissions[i], meshCache), RemoveAt(submissions, i))
    /\ UNCHANGED <<oneshotParam, prolificCode, meshCache, reloaded, quizVars, codecVars, viewerVars, formVars, geomVars, tutorialVars, searchVars>>

\* the reviewer reloads the page: the document is unloaded, the same URL is
\* loaded, DataAnnotation mounts
Reload ==
    /\ page = "task"
    /\ meshCache' = {}
    /\ TabBecomes(Mount([Tab EXCEPT !.fetches = 0], {}))
    /\ submissions' = <<>>
    /\ reloaded' = TRUE
    /\ UNCHANGED <<oneshotParam, prolificCode, quizVars, codecVars, viewerVars, formVars, geomVars, tutorialVars, searchVars>>

\* the tab variables at the start
TabIs(c) ==
    /\ page = c.page
    /\ urlToken = c.urlToken
    /\ annotSchedule = c.annotSchedule
    /\ loading = c.loading
    /\ description = c.description
    /\ fetches = c.fetches

\* the page opened with a URL: any combination of oneshot and prolific_code,
\* no schedule, the token of one, or a token that is no valid schedule
Init ==
    /\ oneshotParam \in BOOLEAN
    /\ prolificCode \in BOOLEAN
    /\ \E url \in {NoParam} \cup {TokenOf(schedule).val : schedule \in InitialSchedules}
                          \cup InvalidTokens :
          TabIs(Mount([page |-> "task", urlToken |-> url, annotSchedule |-> NoSchedule,
                       loading |-> FALSE, description |-> <<>>, fetches |-> 0], {}))
    /\ meshCache = {}
    /\ submissions = <<>>
    /\ cursorTaskStored = FALSE
    /\ reloaded = FALSE
    /\ QuizIdle
    /\ CodecIdle
    /\ ViewerIdle
    /\ FormIdle
    /\ GeomIdle
    /\ TutorialIdle
    /\ SearchIdle

Next ==
    \/ ClickFetchMesh
    \/ \E kind \in {"task", "error", "exhausted", "failed"}, t \in BackendTasks :
          FetchResponds(kind, t)
    \/ GLTFLoaded
    \/ \E d \in Descriptions : EditDescription(d)
    \/ SubmitForm
    \/ \E i \in 1..MaxInFlightSubmits, stored \in BOOLEAN : BackendHandles(i, stored)
    \/ \E i \in 1..MaxInFlightSubmits : FormResumes(i)
    \/ Reload

Spec == Init /\ [][Next]_vars

\* the workflow in which a mesh that is being loaded does get loaded
SpecLive == Init /\ [][Next]_vars /\ WF_vars(GLTFLoaded)

(***************************************************************************)
(* Raw-buffer variant of DataAnnotation (part_004): the task is the three  *)
(* parameters of the URL, its mesh is fetched with POST /api/get-mesh-data *)
(* and kept in meshData. The submission POST of the form is not modelled:  *)
(* its handler ends in the call of fetchMesh (= fetchObjectInfo).          *)
(***************************************************************************)
ViewerTasks == {Task(1), Task(2), Task(3)}

\* fetchMeshData up to its await: the request for the task is in flight
fetchMeshData(loads, t) == Append(loads, t)

\* useEffect on [searchParams]: with the three parameters in the URL the
\* mesh of that task is requested
MeshEffect(loads, t) == IF t = NoTask THEN loads ELSE fetchMeshData(loads, t)

\* fetchObjectInfo up to its await: setLoading(true), setMeshData(null)
ViewerFetchObjectInfo ==
    /\ infoFetches < MaxInFlightFetches
    /\ viewerLoading' = (viewerPage = "task")
    /\ meshData' = NoTask
    /\ infoFetches' = infoFetches + 1
    /\ UNCHANGED <<viewerPage, viewerParams, meshLoads>>

\* click on the fetch button (disabled={loading})
ViewerClickFetch ==
    /\ viewerPage = "task"
    /\ ~viewerLoading
    /\ ViewerFetchObjectInfo
    /\ UNCHANGED <<quizVars, codecVars, flowVars, formVars, geomVars, tutorialVars, searchVars>>

\* handleSubmit of the form, after its POST: await fetchMesh(); the form
\* is enabled while the URL has a category and an object id
ViewerFormSubmitted ==
    /\ viewerPage = "task"
    /\ viewerParams # NoTask
    /\ ViewerFetchObjectInfo
    /\ UNCHANGED <<quizVars, codecVars, flowVars, formVars, geomVars, tutorialVars, searchVars>>

\* fetchObjectInfo from the response on
\*   "error"      !response.ok: alert, setLoading(false)
\*   "exhausted"  204: alert, navigate('/done')
\*   "task"       navigate to "/" with the task as the search parameters; a
\*                search string that differs runs the effect (a mount from
\*                the done page runs it too)
ViewerInfoResponds(kind, t) ==
    /\ infoFetches > 0
    /\ infoFetches' = infoFetches - 1
    /\ t \in ViewerTasks
    /\ CASE kind = "error" ->
              /\ viewerLoading' = FALSE
              /\ UNCHANGED <<viewerPage, viewerParams, meshData, meshLoads>>
         [] kind = "exhausted" ->
              /\ viewerPage' = "done"
              /\ viewerParams' = NoTask
              /\ meshData' = NoTask
              /\ viewerLoading' = FALSE
              /\ UNCHANGED meshLoads
         [] kind = "task" ->
              /\ Len(meshLoads) < MaxMeshLoads
              /\ viewerPage' = "task"
              /\ viewerParams' = t
              /\ meshLoads' = IF viewerPage = "task" /\ t = viewerParams THEN meshLoads
                               ELSE fetchMeshData(meshLoads, t)
              /\ meshData' = IF viewerPage = "task" THEN meshData ELSE NoTask
              /\ viewerLoading' = IF viewerPage = "task" THEN viewerLoading ELSE FALSE
    /\ UNCHANGED <<quizVars, codecVars, flowVars, formVars, geomVars, tutorialVars, searchVars>>

\* fetchMeshData from the response on: setMeshData(data) when response.ok,
\* finally setLoading(false); the state of an unmounted component is gone
ViewerMeshResponds(i, ok) ==
    /\ i \in 1..Len(meshLoads)
    /\ meshLoads' = RemoveAt(meshLoads, i)
    /\ IF viewerPage = "task"
       THEN /\ meshData' = IF ok THEN meshLoads[i] ELSE meshData
            /\ viewerLoading' = FALSE
       ELSE UNCHANGED <<meshData, viewerLoading>>
    /\ UNCHANGED <<viewerPage, viewerParams, infoFetches>>
    /\ UNCHANGED <<quizVars, codecVars, flowVars, formVars, geomVars, tutorialVars, searchVars>>

\* the page opened at "/" with no task in the URL or with one
ViewerInit ==
    /\ viewerPage = "task"
    /\ viewerParams \in {NoTask} \cup ViewerTasks
    /\ meshData = NoTask
    /\ viewerLoading = FALSE
    /\ meshLoads = MeshEffect(<<>>, viewerParams)
    /\ infoFetches = 0
    /\ QuizIdle
    /\ CodecIdle
    /\ FlowIdle
    /\ FormIdle
    /\ GeomIdle
    /\ TutorialIdle
    /\ SearchIdle

ViewerNext ==
    \/ ViewerClickFetch
    \/ ViewerFormSubmitted
    \/ \E kind \in {"error", "exhausted", "task"}, t \in ViewerTasks : ViewerInfoResponds(kind, t)
    \/ \E i \in 1..MaxMeshLoads, ok \in BOOLEAN : ViewerMeshResponds(i, ok)

SpecViewer == ViewerInit /\ [][ViewerNext]_vars

\* C17: the mesh on display belongs to the task of the URL, never to a
\* superseded one, whatever the order in which mesh requests resolve.
StaleMeshDiscarded == meshData # NoTask => meshData = viewerParams

(***************************************************************************)
(* AnnotationForm on its own: SpecForm                                     *)
(* The form as a component of its props, in its two variants under         *)
(* data_annotation/src/AnnotationForm.js: variant 1 (lines 1-118) posts to *)
(* one of three endpoints, variant 2 (lines 120-257) posts one record with *)
(* the flags and the reviewer identity.  What the handler does after the   *)
(* POST outside the form (the callback, the navigation) is in Spec.        *)
(***************************************************************************)
\* isDisabled: variant 1 !category || !object_id; variant 2 also
\* grasp_id == null (grasp id 0 is not null)
formIsDisabled(variant, props) ==
    \/ props.category = <<>>
    \/ props.object_id = <<>>
    \/ variant = 2 /\ props.grasp_id = NoGraspId

\* the description field is disabled
textareaDisabled(variant, props, malformed, invalid) ==
    IF variant = 1 THEN malformed \/ formIsDisabled(variant, props) \/ invalid
    ELSE formIsDisabled(variant, props)

\* the description field is required
textareaRequired(variant, props, malformed) ==
    IF variant = 1 THEN ~malformed /\ ~formIsDisabled(variant, props)
    ELSE TRUE

\* the value the description field shows
textareaValue(variant, malformed, invalid, text) ==
    IF variant = 1 /\ (malformed \/ invalid) THEN <<>> ELSE text

\* constraint validation of the form at submission: a required control
\* that is not disabled must have a value (a disabled control is barred
\* from validation); the user id field of variant 2 is required and never
\* disabled, shown or hidden
formValid(variant, props, malformed, invalid, text, uid) ==
    /\ \/ textareaDisabled(variant, props, malformed, invalid)
       \/ ~textareaRequired(variant, props, malformed)
       \/ textareaValue(variant, malformed, invalid, text) # <<>>
    /\ variant = 2 => uid # <<>>

\* the endpoint and the body handleSubmit builds
formRequest(variant, props, malformed, invalid, text, uid, taken) ==
    IF variant = 1 THEN
        IF malformed THEN
            [endpoint |-> "/api/submit-malformed",
             object_category |-> props.category, object_id |-> props.object_id,
             grasp_id |-> NoGraspId, description |-> NoField,
             is_mesh_malformed |-> NoField, is_grasp_invalid |-> NoField,
             user_id |-> NoField, time_taken |-> NoField]
        ELSE IF invalid THEN
            [endpoint |-> "/api/submit-invalid-grasp",
             object_category |-> props.category, object_id |-> props.object_id,
             grasp_id |-> props.grasp_id, description |-> NoField,
             is_mesh_malformed |-> NoField, is_grasp_invalid |-> NoField,
             user_id |-> NoField, time_taken |-> NoField]
        ELSE
            [endpoint |-> "/api/submit-annotation",
             object_category |-> props.category, object_id |-> props.object_id,
             grasp_id |-> props.grasp_id, description |-> text,
             is_mesh_malformed |-> NoField, is_grasp_invalid |-> NoField,
             user_id |-> NoField, time_taken |-> NoField]
    ELSE
        [endpoint |-> "/api/submit-annotation",
         object_category |-> props.category, object_id |-> props.object_id,
         grasp_id |-> props.grasp_id, description |-> text,
         is_mesh_malformed |-> malformed, is_grasp_invalid |-> invalid,
         user_id |-> uid, time_taken |-> taken]

\* variant of userIdEffect that generates an id at every mount
userIdEffectAlwaysMinting(stored, minted, prolific) ==
    [stored |-> uuidv4(minted + 1),
     minted |-> minted + 1,
     userID |-> IF prolific THEN <<>> ELSE uuidv4(minted + 1)]

\* the mount effect of variant 2: the id in localStorage, generated and
\* stored when there is none, becomes userID unless the session has a
\* platform code
userIdEffect(stored, minted, prolific) ==
    [stored |-> IF stored = <<>> THEN uuidv4(minted + 1) ELSE stored,
     minted |-> IF stored = <<>> THEN minted + 1 ELSE minted,
     userID |-> IF prolific THEN <<>>
                ELSE IF stored = <<>> THEN uuidv4(minted + 1) ELSE stored]

\* the form mounts: useState initial values, then the mount effect
FormMount ==
    /\ ~formMounted
    /\ formMounts < MaxFormMounts
    /\ formMounted' = TRUE
    /\ formMounts' = formMounts + 1
    /\ startTime' = clock
    /\ taskShownAt' = clock
    /\ formDescription' = <<>>
    /\ isMalformed' = FALSE
    /\ isInvalidGrasp' = FALSE
    /\ IF formVariant = 2
       THEN LET e == userIdEffect(storedUserId, mintedIds, formProlific)
            IN /\ storedUserId' = e.stored
               /\ mintedIds' = e.minted
               /\ userID' = e.userID
       ELSE /\ userID' = <<>>
            /\ UNCHANGED <<storedUserId, mintedIds>>
    /\ UNCHANGED <<clock, awaitingFetchMesh, formVariant, formProps, formProlific, handleSubmitCalls,
                   postsIssued, postsInFlight, alertsShown, sentRecords>>
    /\ UNCHANGED <<quizVars, codecVars, flowVars, viewerVars, geomVars, tutorialVars, searchVars>>

\* the page is left or reloaded: the form unmounts, localStorage stays,
\* the handlers waiting for a response are gone with the page
FormUnmount ==
    /\ formMounted
    /\ awaitingFetchMesh' = 0
    /\ formMounted' = FALSE
    /\ formDescription' = <<>>
    /\ isMalformed' = FALSE
    /\ isInvalidGrasp' = FALSE
    /\ userID' = <<>>
    /\ postsInFlight' = 0
    /\ UNCHANGED <<clock, startTime, taskShownAt, formVariant, formProps, formProlific, formMounts, storedUserId, mintedIds,
                   handleSubmitCalls, postsIssued, alertsShown, sentRecords>>
    /\ UNCHANGED <<quizVars, codecVars, flowVars, viewerVars, geomVars, tutorialVars, searchVars>>

\* onChange of the description field
FormEditDescription(text) ==
    /\ formMounted
    /\ ~textareaDisabled(formVariant, formProps, isMalformed, isInvalidGrasp)
    /\ formDescription' = text
    /\ UNCHANGED <<clock, startTime, taskShownAt, awaitingFetchMesh, formVariant, formProps, formProlific, formMounts, formMounted, isMalformed,
                   isInvalidGrasp, userID, storedUserId, mintedIds, handleSubmitCalls,
                   postsIssued, postsInFlight, alertsShown, sentRecords>>
    /\ UNCHANGED <<quizVars, codecVars, flowVars, viewerVars, geomVars, tutorialVars, searchVars>>

\* onChange of the "Mesh is malformed" checkbox (disabled={isDisabled})
FormToggleMalformed ==
    /\ formMounted
    /\ ~formIsDisabled(formVariant, formProps)
    /\ isMalformed' = ~isMalformed
    /\ UNCHANGED <<clock, startTime, taskShownAt, awaitingFetchMesh, formVariant, formProps, formProlific, formMounts, formMounted, formDescription,
                   isInvalidGrasp, userID, storedUserId, mintedIds, handleSubmitCalls,
                   postsIssued, postsInFlight, alertsShown, sentRecords>>
    /\ UNCHANGED <<quizVars, codecVars, flowVars, viewerVars, geomVars, tutorialVars, searchVars>>

\* onChange of the "Invalid grasp" checkbox: variant 1 shows it checked
\* when isInvalidGrasp && !isMalformed and disables it when isMalformed
FormToggleInvalidGrasp ==
    /\ formMounted
    /\ ~formIsDisabled(formVariant, formProps)
    /\ formVariant = 1 => ~isMalformed
    /\ isInvalidGrasp' = ~isInvalidGrasp
    /\ UNCHANGED <<clock, startTime, taskShownAt, awaitingFetchMesh, formVariant, formProps, formProlific, formMounts, formMounted, formDescription,
                   isMalformed, userID, storedUserId, mintedIds, handleSubmitCalls,
                   postsIssued, postsInFlight, alertsShown, sentRecords>>
    /\ UNCHANGED <<quizVars, codecVars, flowVars, viewerVars, geomVars, tutorialVars, searchVars>>

\* onChange of the user id field of variant 2, shown when the session has
\* a platform code
FormEditUserID(uid) ==
    /\ formMounted
    /\ formVariant = 2
    /\ formProlific
    /\ userID' = uid
    /\ UNCHANGED <<clock, startTime, taskShownAt, awaitingFetchMesh, formVariant, formProps, formProlific, formMounts, formMounted, formDescription,
                   isMalformed, isInvalidGrasp, storedUserId, mintedIds,
                   handleSubmitCalls, postsIssued, postsInFlight, alertsShown,
                   sentRecords>>
    /\ UNCHANGED <<quizVars, codecVars, flowVars, viewerVars, geomVars, tutorialVars, searchVars>>

\* click on Submit (disabled={isDisabled}): the form is validated, then
\* handleSubmit runs up to its await of fetch
FormClickSubmit ==
    /\ formMounted
    /\ ~formIsDisabled(formVariant, formProps)
    /\ formValid(formVariant, formProps, isMalformed, isInvalidGrasp, formDescription, userID)
    /\ handleSubmitCalls < MaxFormSubmits
    /\ handleSubmitCalls' = handleSubmitCalls + 1
    /\ postsIssued' = postsIssued + 1
    /\ postsInFlight' = postsInFlight + 1
    /\ sentRecords' = sentRecords \cup
           {formRequest(formVariant, formProps, isMalformed, isInvalidGrasp,
                        formDescription, userID, clock - startTime)}
    /\ UNCHANGED <<clock, startTime, taskShownAt, awaitingFetchMesh, formVariant, formProps, formProlific, formMounts, formMounted, formDescription,
                   isMalformed, isInvalidGrasp, userID, storedUserId, mintedIds,
                   alertsShown>>
    /\ UNCHANGED <<quizVars, codecVars, flowVars, viewerVars, geomVars, tutorialVars, searchVars>>

\* variant of FormPostResponds that posts again when the request failed
FormPostRespondsRetrying(outcome) ==
    /\ postsInFlight > 0
    /\ awaitingFetchMesh' = awaitingFetchMesh + 1
    /\ IF outcome = "ok"
       THEN /\ postsInFlight' = postsInFlight - 1
            /\ UNCHANGED <<alertsShown, postsIssued>>
       ELSE /\ alertsShown' = alertsShown + 1
            /\ postsIssued' = postsIssued + 1
            /\ UNCHANGED postsInFlight
    /\ formDescription' = <<>>
    /\ isMalformed' = FALSE
    /\ isInvalidGrasp' = FALSE
    /\ UNCHANGED <<clock, startTime, taskShownAt, formVariant, formProps, formProlific, formMounts, formMounted, userID,
                   storedUserId, mintedIds, handleSubmitCalls, sentRecords>>
    /\ UNCHANGED <<quizVars, codecVars, flowVars, viewerVars, geomVars, tutorialVars, searchVars>>

\* the response of a POST arrives ("ok"), arrives with a status that is
\* not ok ("http_error"), or fetch rejects ("network_error"): the handler
\* alerts on the last two, resets the form and calls fetchMesh()
FormPostResponds(outcome) ==
    /\ postsInFlight > 0
    /\ awaitingFetchMesh' = awaitingFetchMesh + 1
    /\ postsInFlight' = postsInFlight - 1
    /\ alertsShown' = IF outcome = "ok" THEN alertsShown ELSE alertsShown + 1
    /\ formDescription' = <<>>
    /\ isMalformed' = FALSE
    /\ isInvalidGrasp' = FALSE
    /\ UNCHANGED <<clock, startTime, taskShownAt, formVariant, formProps, formProlific, formMounts, formMounted, userID,
                   storedUserId, mintedIds, handleSubmitCalls, postsIssued,
                   sentRecords>>
    /\ UNCHANGED <<quizVars, codecVars, flowVars, viewerVars, geomVars, tutorialVars, searchVars>>

\* await fetchMesh() of a handler ends with the next task: the parent
\* renders the form, which stays mounted, with the props of that task
\* (the same task again included); the state of the form is kept, and
\* the effect of lines 145-147 runs if category, object_id or grasp_id
\* differs from the one before
FormTaskArrives(props) ==
    /\ awaitingFetchMesh > 0
    /\ awaitingFetchMesh' = awaitingFetchMesh - 1
    /\ formProps' = props
    /\ startTime' = IF props # formProps THEN clock ELSE startTime
    /\ taskShownAt' = clock
    /\ UNCHANGED <<clock, formVariant, formProlific, formMounted, formMounts, formDescription,
                   isMalformed, isInvalidGrasp, userID, storedUserId, mintedIds,
                   handleSubmitCalls, postsIssued, postsInFlight, alertsShown,
                   sentRecords>>
    /\ UNCHANGED <<quizVars, codecVars, flowVars, viewerVars, geomVars, tutorialVars, searchVars>>

\* time passes
Tick ==
    /\ clock < MaxClock
    /\ clock' = clock + 1
    /\ UNCHANGED <<awaitingFetchMesh, startTime, taskShownAt, formVariant, formProps,
                   formProlific, formMounts, formMounted, formDescription, isMalformed,
                   isInvalidGrasp, userID, storedUserId, mintedIds, handleSubmitCalls,
                   postsIssued, postsInFlight, alertsShown, sentRecords>>
    /\ UNCHANGED <<quizVars, codecVars, flowVars, viewerVars, geomVars, tutorialVars, searchVars>>

\* a browser whose storage holds no id or the id of an earlier session,
\* opened on a page that mounts the form
FormInit ==
    /\ formVariant \in {1, 2}
    /\ formProps \in FormPropsSet
    /\ formProlific \in BOOLEAN
    /\ formMounted = FALSE
    /\ formMounts = 0
    /\ formDescription = <<>>
    /\ isMalformed = FALSE
    /\ isInvalidGrasp = FALSE
    /\ userID = <<>>
    /\ storedUserId \in {<<>>, uuidv4(0)}
    /\ mintedIds = 0
    /\ handleSubmitCalls = 0
    /\ postsIssued = 0
    /\ postsInFlight = 0
    /\ alertsShown = 0
    /\ awaitingFetchMesh = 0
    /\ clock = 0
    /\ startTime = 0
    /\ taskShownAt = 0
    /\ sentRecords = {}
    /\ QuizIdle
    /\ CodecIdle
    /\ FlowIdle
    /\ ViewerIdle
    /\ GeomIdle
    /\ TutorialIdle
    /\ SearchIdle

FormNext ==
    \/ FormMount
    \/ FormUnmount
    \/ \E text \in FormTexts : FormEditDescription(text)
    \/ FormToggleMalformed
    \/ FormToggleInvalidGrasp
    \/ \E uid \in TypedUserIds : FormEditUserID(uid)
    \/ FormClickSubmit
    \/ \E outcome \in {"ok", "http_error", "network_error"} : FormPostResponds(outcome)
    \/ \E props \in NextTaskProps : FormTaskArrives(props)

SpecForm == FormInit /\ [][FormNext]_vars

\* the form of lines 120-257 in a session without platform code, with
\* time passing
TimedFormInit ==
    /\ FormInit
    /\ formVariant = 2
    /\ ~formProlific
    /\ formProps \in NextTaskProps
    /\ storedUserId = uuidv4(0)

TimedFormNext ==
    \/ FormMount
    \/ \E text \in FormTexts : FormEditDescription(text)
    \/ FormClickSubmit
    \/ \E outcome \in {"ok", "http_error", "network_error"} : FormPostResponds(outcome)
    \/ \E props \in NextTaskProps : FormTaskArrives(props)
    \/ Tick

SpecTimedForm == TimedFormInit /\ [][TimedFormNext]_vars

(***************************************************************************)
(* The Mesh component on its own: SpecMesh                                 *)
(* (MeshViewer.js 22-53; part_004 77-91 is the same without the normals)   *)
(***************************************************************************)
\* the coordinates of three vertices, of two, and a list that is no whole
\* number of vertices
GeomVertexLists ==
    { <<0, 0, 0, 1, 0, 0, 0, 1, 0>>, <<0, 0, 0, 1, 0, 0>>, <<0, 0, 0, 1>> }

\* face lists: one triangle over indices 0..3, and lists of four indices
GeomFaceLists == [1..3 -> 0..3] \cup [1..4 -> 0..1] \cup {<<0, 1, 2, 3>>}

\* a list of n zeros
Zeros(n) == [k \in 1..n |-> 0]

\* the payloads of the mesh endpoint given to the component; vertex_colors
\* and normals are absent, as long as the vertices, or of another length
MeshPayloads ==
    { [vertices |-> v, faces |-> f, vertexColors |-> c, normals |-> n] :
        v \in GeomVertexLists, f \in GeomFaceLists,
        c \in {NoField, Zeros(3), Zeros(6), Zeros(9)},
        n \in {NoField, <<0, 0, 1, 0, 0, 1, 0, 0, 1>>} }

\* new Float32Array(list): a typed array of the same length (the numbers
\* of the model are small integers, which a float32 holds exactly); of
\* undefined, an empty array
Float32Array(list) == IF list = NoField THEN <<>> ELSE [k \in 1..Len(list) |-> list[k]]

\* new Uint32Array(list): a typed array of the same length (the indices
\* of the model are non-negative and below 2^31, which a uint32 holds
\* unchanged); of undefined, an empty array
Uint32Array(list) == IF list = NoField THEN <<>> ELSE [k \in 1..Len(list) |-> list[k]]

\* <bufferAttribute array itemSize count>: count is the quotient
\* array.length / itemSize, kept as <<numerator, denominator>>
bufferAttribute(array, itemSize) ==
    [array |-> array, itemSize |-> itemSize, count |-> <<Len(array), itemSize>>]

\* Mesh({vertices, faces, normals, vertexColors}): the typed arrays and
\* the element returned; nothing is checked and nothing throws
Mesh(payload) ==
    Ok([position |-> bufferAttribute(Float32Array(payload.vertices), 3),
        color    |-> bufferAttribute(Float32Array(payload.vertexColors), 3),
        normal   |-> bufferAttribute(Float32Array(payload.normals), 3),
        index    |-> bufferAttribute(Uint32Array(payload.faces), 1)])

\* the component renders with the payload
MeshRender ==
    /\ geomMesh = Err("none")
    /\ geomMesh' = Mesh(geomPayload)
    /\ UNCHANGED geomPayload
    /\ UNCHANGED <<quizVars, codecVars, flowVars, viewerVars, formVars, tutorialVars, searchVars>>

GeomInit ==
    /\ geomPayload \in MeshPayloads
    /\ geomMesh = Err("none")
    /\ QuizIdle
    /\ CodecIdle
    /\ FlowIdle
    /\ ViewerIdle
    /\ FormIdle
    /\ TutorialIdle
    /\ SearchIdle

GeomNext == MeshRender

SpecMesh == GeomInit /\ [][GeomNext]_vars

(***************************************************************************)
(* Tutorial overlay: the first-visit gate of DataAnnotation (lines 24-30)  *)
(* and of Quiz (part_003 82-88), which read and write the same key of      *)
(* localStorage. The storage is one browser's and is not cleared.          *)
(***************************************************************************)
\* the pages that host the overlay
TutorialHosts == {"Quiz", "DataAnnotation"}

\* the mount effect that never records the presentation
tutorialEffectNotRecording(item) ==
    IF item = NoItem
    THEN [show |-> TRUE, item |-> item]
    ELSE [show |-> FALSE, item |-> item]

\* the mount effect: with no item stored it opens the overlay and stores
\* 'true'; otherwise showTutorial keeps its initial value, false
tutorialEffect(item) ==
    IF item = NoItem
    THEN [show |-> TRUE, item |-> "true"]
    ELSE [show |-> FALSE, item |-> item]

\* a hosting page mounts (first render, then its [] effect)
TutorialMount(host) ==
    /\ tutorialHost = "none"
    /\ tutorialMounts < MaxTutorialMounts
    /\ tutorialHost' = host
    /\ tutorialMounts' = tutorialMounts + 1
    /\ showTutorial' = tutorialEffect(hasSeenTutorial).show
    /\ hasSeenTutorial' = tutorialEffect(hasSeenTutorial).item
    /\ autoPresented' = IF tutorialEffect(hasSeenTutorial).show THEN autoPresented + 1
                                                                ELSE autoPresented
    /\ shownBy' = IF tutorialEffect(hasSeenTutorial).show THEN "effect" ELSE "none"
    /\ UNCHANGED tutorialClicks
    /\ UNCHANGED <<quizVars, codecVars, flowVars, viewerVars, formVars, geomVars, searchVars>>

\* the page is left or reloaded: its component state is gone, localStorage is kept
TutorialUnmount ==
    /\ tutorialHost # "none"
    /\ tutorialHost' = "none"
    /\ showTutorial' = FALSE
    /\ shownBy' = "none"
    /\ UNCHANGED <<hasSeenTutorial, tutorialMounts, tutorialClicks, autoPresented>>
    /\ UNCHANGED <<quizVars, codecVars, flowVars, viewerVars, formVars, geomVars, searchVars>>

\* the Show Tutorial button: setShowTutorial(true)
ClickShowTutorial ==
    /\ tutorialHost # "none"
    /\ tutorialClicks < MaxTutorialClicks
    /\ tutorialClicks' = tutorialClicks + 1
    /\ showTutorial' = TRUE
    /\ shownBy' = IF showTutorial THEN shownBy ELSE "button"
    /\ UNCHANGED <<tutorialHost, hasSeenTutorial, tutorialMounts, autoPresented>>
    /\ UNCHANGED <<quizVars, codecVars, flowVars, viewerVars, formVars, geomVars, searchVars>>

\* the close button of the overlay: onClose, setShowTutorial(false)
CloseTutorial ==
    /\ tutorialHost # "none"
    /\ showTutorial
    /\ showTutorial' = FALSE
    /\ UNCHANGED <<tutorialHost, hasSeenTutorial, tutorialMounts, tutorialClicks,
                   autoPresented, shownBy>>
    /\ UNCHANGED <<quizVars, codecVars, flowVars, viewerVars, formVars, geomVars, searchVars>>

\* a browser that has or has not been through the tutorial, no page mounted
TutorialInit ==
    /\ tutorialHost = "none"
    /\ showTutorial = FALSE
    /\ hasSeenTutorial \in {NoItem, "true"}
    /\ tutorialMounts = 0
    /\ tutorialClicks = 0
    /\ autoPresented = 0
    /\ shownBy = "none"
    /\ QuizIdle
    /\ CodecIdle
    /\ FlowIdle
    /\ ViewerIdle
    /\ FormIdle
    /\ GeomIdle
    /\ SearchIdle

TutorialNext ==
    \/ \E host \in TutorialHosts : TutorialMount(host)
    \/ TutorialUnmount
    \/ ClickShowTutorial
    \/ CloseTutorial

SpecTutorial == TutorialInit /\ [][TutorialNext]_vars

(***************************************************************************)
(* The query string under navigateToSchedule (DataAnnotation.js 40-47):    *)
(* searchParams.set("annotation_schedule", ...) on the URLSearchParams of  *)
(* the location, then navigate to "/" with searchParams.toString().        *)
(* Strings are sequences of code units.                                    *)
(***************************************************************************)
\* the names of the recognised parameters
AnnotationScheduleName == <<97, 110, 110, 111, 116, 97, 116, 105, 111, 110, 95, 115, 99, 104, 101, 100, 117, 108, 101>>
OneshotName == <<111, 110, 101, 115, 104, 111, 116>>
ProlificCodeName == <<112, 114, 111, 108, 105, 102, 105, 99, 95, 99, 111, 100, 101>>
ProlificRejectionCodeName == <<112, 114, 111, 108, 105, 102, 105, 99, 95, 114, 101, 106, 101, 99, 116, 105, 111, 110, 95, 99, 111, 100, 101>>

\* the first index from i on at which str holds c, 0 when there is none
RECURSIVE FirstIndex(_, _, _)
FirstIndex(str, c, i) ==
    IF i > Len(str) THEN 0
    ELSE IF str[i] = c THEN i
    ELSE FirstIndex(str, c, i + 1)

\* str split at every c
RECURSIVE SplitOn(_, _)
SplitOn(str, c) ==
    IF FirstIndex(str, c, 1) = 0 THEN <<str>>
    ELSE <<SubSeq(str, 1, FirstIndex(str, c, 1) - 1)>>
             \o SplitOn(SubSeq(str, FirstIndex(str, c, 1) + 1, Len(str)), c)

\* one name=value piece of a query string: split at the first "=", a piece
\* without "=" has the empty value
SearchPair(piece) ==
    IF FirstIndex(piece, 61, 1) = 0
    THEN [name |-> FormParse(piece), value |-> <<>>]
    ELSE [name  |-> FormParse(SubSeq(piece, 1, FirstIndex(piece, 61, 1) - 1)),
          value |-> FormParse(SubSeq(piece, FirstIndex(piece, 61, 1) + 1, Len(piece)))]

IsSearchPiece(piece) == piece # <<>>

\* new URLSearchParams(search): the list of pairs of the pieces between
\* "&", empty pieces skipped
URLSearchParams(search) ==
    [i \in 1..Len(SelectSeq(SplitOn(search, 38), IsSearchPiece)) |->
        SearchPair(SelectSeq(SplitOn(search, 38), IsSearchPiece)[i])]

\* searchParams.toString(): name=value joined by "&"
RECURSIVE searchParamsToString(_)
searchParamsToString(params) ==
    IF params = <<>> THEN <<>>
    ELSE FormSerialize(Head(params).name) \o <<61>> \o FormSerialize(Head(params).value)
             \o (IF Len(params) = 1 THEN <<>>
                 ELSE <<38>> \o searchParamsToString(Tail(params)))

\* searchParams.has(name)
searchParamsHas(params, name) == \E i \in 1..Len(params) : params[i].name = name

\* searchParams.get(name): the value of the first pair of that name
\* (asked only when there is one)
searchParamsGet(params, name) ==
    params[CHOOSE i \in 1..Len(params) :
              /\ params[i].name = name
              /\ \A k \in 1..(i - 1) : params[k].name # name].value

\* the pairs of params whose name is not `name`, in their order
RECURSIVE WithoutName(_, _)
WithoutName(params, name) ==
    IF params = <<>> THEN <<>>
    ELSE IF Head(params).name = name THEN WithoutName(Tail(params), name)
    ELSE <<Head(params)>> \o WithoutName(Tail(params), name)

\* searchParams.set(name, value): the first pair of that name takes the
\* value and the other pairs of that name are removed; without such a pair
\* one is appended
searchParamsSet(params, name, value) ==
    IF ~searchParamsHas(params, name)
    THEN Append(params, [name |-> name, value |-> value])
    ELSE LET first == CHOOSE i \in 1..Len(params) :
                          /\ params[i].name = name
                          /\ \A k \in 1..(i - 1) : params[k].name # name
         IN  SubSeq(params, 1, first - 1)
                 \o <<[name |-> name, value |-> value]>>
                 \o WithoutName(SubSeq(params, first + 1, Len(params)), name)

\* the session mode read from a query string (line 112)
searchOneshot(search) ==
    \/ /\ searchParamsHas(URLSearchParams(search), OneshotName)
       /\ searchParamsGet(URLSearchParams(search), OneshotName) = <<116, 114, 117, 101>>
    \/ searchParamsHas(URLSearchParams(search), ProlificCodeName)

\* mutant: the location is built from the token alone
navigateSearchFromTokenAlone(search, token) ==
    searchParamsToString(<<[name |-> AnnotationScheduleName, value |-> token]>>)

\* the query string navigateToSchedule navigates to, token the result of
\* encodeStr(JSON.stringify(schedule)) and search the query string its
\* searchParams were read from
navigateSearch(search, token) ==
    searchParamsToString(searchParamsSet(URLSearchParams(search), AnnotationScheduleName, token))

\* the pairs a session URL is made of: oneshot=true, oneshot=false,
\* prolific_code=C1, prolific_code=a b&c, prolific_rejection_code=R=,
\* annotation_schedule=Zw, annotation_schedule=YQ%3D
SearchPairs ==
    { [name |-> OneshotName, value |-> <<116, 114, 117, 101>>],
      [name |-> OneshotName, value |-> <<102, 97, 108, 115, 101>>],
      [name |-> ProlificCodeName, value |-> <<67, 49>>],
      [name |-> ProlificCodeName, value |-> <<97, 32, 98, 38, 99>>],
      [name |-> ProlificRejectionCodeName, value |-> <<82, 61>>],
      [name |-> AnnotationScheduleName, value |-> <<90, 119>>],
      [name |-> AnnotationScheduleName, value |-> <<89, 81, 37, 51, 68>>] }

\* query strings as a reviewer may type them: "oneshot", "oneshot=true&&",
\* "prolific_code=a+b&oneshot=TRUE"
TypedSearches ==
    { <<111, 110, 101, 115, 104, 111, 116>>,
      <<111, 110, 101, 115, 104, 111, 116, 61, 116, 114, 117, 101, 38, 38>>,
      <<112, 114, 111, 108, 105, 102, 105, 99, 95, 99, 111, 100, 101, 61, 97, 43, 98, 38, 111, 110, 101, 115, 104, 111, 116, 61, 84, 82, 85, 69>> }

\* the query strings a session is opened with
InitialSearches ==
    TypedSearches
        \cup { searchParamsToString(params) :
                 params \in UNION { [1..n -> SearchPairs] : n \in 0..MaxSearchParams } }

\* the tokens pushed: Zw, YQ%3D, Yg%3D%3D
PushedTokens == { <<90, 119>>, <<89, 81, 37, 51, 68>>, <<89, 103, 37, 51, 68, 37, 51, 68>> }

\* navigateToSchedule(schedule) with encodeStr(JSON.stringify(schedule)) = token
TokenPushed(token) ==
    /\ tokenPushes < MaxTokenPushes
    /\ tokenPushes' = tokenPushes + 1
    /\ locationSearch' = navigateSearch(locationSearch, token)
    /\ UNCHANGED <<quizVars, codecVars, flowVars, viewerVars, formVars, geomVars, tutorialVars>>

SearchInit ==
    /\ locationSearch \in InitialSearches
    /\ tokenPushes = 0
    /\ QuizIdle
    /\ CodecIdle
    /\ FlowIdle
    /\ ViewerIdle
    /\ FormIdle
    /\ GeomIdle
    /\ TutorialIdle

SearchNext == \E token \in PushedTokens : TokenPushed(token)

SpecSearch == SearchInit /\ [][SearchNext]_vars

(***************************************************************************)
(* Workflow claims                                                         *)
(***************************************************************************)
\* the schedule the decode effect sets for a result d, NoSchedule when it
\* sets none (an exception, or the cursor rejected)
ScheduleOr(d) == IF d.ok /\ ~IndexRejected(d.val) THEN d.val ELSE NoSchedule

\* the schedule a load of the current URL decodes and sets
UrlSchedule == IF urlToken = NoParam THEN NoSchedule ELSE ScheduleOr(DecodedOf(urlToken))

\* C1 (as stated): a reload, taken at any point, never shows a task whose
\* annotation was already submitted: the task at the cursor of the token
\* the reload decodes has no annotation stored since that token was pushed.
ReloadNeverShowsSubmitted == [][Reload => ~cursorTaskStored']_vars

\* C1 (amended): a reload keeps the URL and shows the schedule decoded from
\* its token; and the token moves to a cursor k > 0 only in the step in
\* which the handler of a submission of task k - 1 of the same list
\* resumes, so no task is passed over without a completed submission
\* attempt.
ReloadResumesAtToken ==
    [][ /\ Reload => (urlToken' = urlToken /\ annotSchedule' = UrlSchedule)
        /\ (urlToken' # urlToken /\ UrlSchedule'.idx > 0)
              => \E i \in 1..Len(submissions) :
                    /\ FormResumes(i)
                    /\ submissions[i].sched = [UrlSchedule' EXCEPT !.idx = @ - 1]
      ]_vars

\* a reload after the cursor moved on: the page shows the task at the cursor
\* of the token
ReloadResumesAtTokenWitness ==
    /\ reloaded
    /\ page = "task"
    /\ submissions = <<>>
    /\ annotSchedule.idx >= 1
    /\ annotSchedule = UrlSchedule

\* C2: a completed submission (the annotation stored) against the
\* multi-task schedule of the URL, its cursor not on the last task, leaves
\* the URL with the same task list and the cursor increased by exactly 1.
CursorIncreasesByOne ==
    [][ \A i \in 1..Len(submissions) :
           (/\ FormResumes(i)
            /\ submissions[i].status = "accepted"
            /\ page = "task"
            /\ Len(submissions[i].sched.annotations) > 1
            /\ UrlSchedule.annotations = submissions[i].sched.annotations
            /\ UrlSchedule.idx + 1 < Len(UrlSchedule.annotations))
           => /\ page' = "task"
              /\ UrlSchedule' = [UrlSchedule EXCEPT !.idx = @ + 1]
      ]_vars

\* C4: in one-shot mode (oneshot=true or a prolific_code) the step in which
\* a submission completes (the annotation stored) ends the session, on the
\* done page or at the platform URL, wherever the cursor of the schedule is.
OneShotTerminates ==
    [][ \A i \in 1..Len(submissions) :
           (FormResumes(i) /\ submissions[i].status = "accepted" /\ oneshot)
           => page' \in {"done", "prolific"}
      ]_vars

\* C11: whenever a schedule is active (annotSchedule is not null) its
\* cursor satisfies 0 <= idx < length(annotations).
ActiveScheduleInBounds ==
    annotSchedule # NoSchedule
        => (0 <= annotSchedule.idx /\ annotSchedule.idx < Len(annotSchedule.annotations))

\* C12: while the URL holds a token that is no valid schedule the page has
\* not crashed and is in the safe state: no schedule active, the loading
\* indicator cleared (the Fetch Mesh button enabled).
InvalidTokenSafe ==
    (urlToken \in InvalidTokens /\ page \in {"task", "error"})
        => (page = "task" /\ annotSchedule = NoSchedule /\ ~loading)

\* the handler of submission i resumes on the task page, not in one-shot
\* mode, for the last task of its schedule
LastTaskResumes(i) ==
    /\ FormResumes(i)
    /\ ~oneshot
    /\ page = "task"
    /\ submissions[i].sched.idx + 1 = Len(submissions[i].sched.annotations)

\* C13 (as stated): not in one-shot mode, the step in which the submission
\* of the last task of the schedule completes takes the controller to the
\* done page.
BatchLastSubmitTerminates ==
    [][ \A i \in 1..Len(submissions) : LastTaskResumes(i) => page' = "done" ]_vars

\* C13 (amended): not in one-shot mode, the step in which the submission of
\* the last task completes sends a next-task request and stays on the task
\* page with the same URL; the task page is left for the done page only in
\* the step in which a next-task request is answered with 204.
BatchLastSubmitFetches ==
    [][ /\ \A i \in 1..Len(submissions) :
              LastTaskResumes(i)
                 => (fetches' = fetches + 1 /\ page' = "task" /\ urlToken' = urlToken)
        /\ (~oneshot /\ page = "task" /\ page' = "done")
              => \E t \in BackendTasks : FetchResponds("exhausted", t)
      ]_vars

\* the last task of a schedule of several tasks was submitted and stored,
\* its handler has resumed and the next-task request is in flight
BatchLastSubmitFetchesWitness ==
    /\ ~oneshot
    /\ ~reloaded
    /\ page = "task"
    /\ annotSchedule.idx >= 1
    /\ annotSchedule.idx + 1 = Len(annotSchedule.annotations)
    /\ cursorTaskStored
    /\ submissions = <<>>
    /\ fetches = 1

\* C14: the step in which a next-task request is answered with 204 leaves
\* the controller on the done page with no schedule in memory or in the
\* URL and the loading indicator off: no schedule is created, the answer is
\* neither handled as an error (staying on the task page) nor as a task.
ExhaustionTerminates ==
    [][ \A t \in BackendTasks :
           (FetchResponds("exhausted", t) /\ page \in {"task", "done"})
              => /\ page' = "done"
                 /\ annotSchedule' = NoSchedule
                 /\ urlToken' = NoParam
                 /\ ~loading'
                 /\ fetches' = fetches - 1
      ]_vars

\* outside one-shot mode the done page is reached only by a 204
ExhaustionTerminatesWitness ==
    /\ ~oneshot
    /\ page = "done"
    /\ annotSchedule = NoSchedule
    /\ urlToken = NoParam
    /\ fetches = 0

\* C15: once the controller is on the done page or at the platform URL, no
\* later step takes it anywhere else.
TerminatedAbsorbing ==
    [][ (page \in {"done", "prolific"}) => (page' = page) ]_vars

\* C16: no two submission POSTs for the same displayed task (the same
\* schedule and cursor) are in flight together.
NoDuplicateSubmissions ==
    \A i, j \in 1..Len(submissions) :
        submissions[i].sched = submissions[j].sched => i = j

\* C18: the step in which the handler of a failed submission POST (status
\* not 2xx, or a network failure) resumes leaves the tab exactly as the
\* same step after a stored submission would: the form that sent it is
\* reset, and the session has terminated (one-shot mode), a next-task
\* request was sent, or the URL holds the schedule with the cursor on the
\* task after the one submitted.
SubmissionFailureProceeds ==
    [][ \A i \in 1..Len(submissions) :
           (/\ FormResumes(i)
            /\ submissions[i].status = "failed"
            /\ page \in {"task", "done"})
           => /\ Tab' = AfterSubmit(Tab, [submissions[i] EXCEPT !.status = "accepted"],
                                    meshCache)
              /\ (submissions[i].handler = "mounted" => description' = <<>>)
              /\ \/ oneshot /\ page' \in {"done", "prolific"}
                 \/ fetches' = fetches + 1
                 \/ Ok(urlToken') = TokenOf([submissions[i].sched EXCEPT !.idx = @ + 1])
      ]_vars

\* a submission POST has failed and its handler is about to resume on the
\* form that sent it
SubmissionFailureProceedsWitness ==
    /\ page = "task"
    /\ description # <<>>
    /\ \E i \in 1..Len(submissions) :
          /\ submissions[i].status = "failed"
          /\ submissions[i].handler = "mounted"
          /\ submissions[i].sched = annotSchedule

\* C19: the step in which a next-task request fails, with a non-success
\* status ("error") or at the network level ("failed"), leaves the
\* schedule and the URL token as they were and the loading flag cleared,
\* so that the Fetch Mesh button is enabled again.
FetchFailureRetryable ==
    [][ \A kind \in {"error", "failed"}, t \in BackendTasks :
           (FetchResponds(kind, t) /\ page = "task")
              => /\ annotSchedule' = annotSchedule
                 /\ urlToken' = urlToken
                 /\ ~loading'
      ]_vars

\* C20: a load of the page with no annotation_schedule in the URL sends a
\* next-task request, in one-shot mode as well as in interactive mode.
LoadWithoutTokenRequestsTask ==
    [][ (Reload /\ urlToken = NoParam) => fetches' > 0 ]_vars

\* the page was just loaded with the token of a valid schedule: the task at
\* the cursor of the decoded schedule is the current task, its mesh is
\* being loaded and no next-task request is in flight
ShowsTaskOfToken ==
    /\ annotSchedule = UrlSchedule
    /\ HasAnnotInfo(annotSchedule)
    /\ annotInfo(annotSchedule) = UrlSchedule.annotations[UrlSchedule.idx + 1]
    /\ fetches = 0
    /\ loading
    /\ annotInfo(annotSchedule) \notin meshCache

\* the URL holds the token of a schedule with the cursor within its tasks
HasValidToken == UrlSchedule # NoSchedule /\ UrlSchedule.idx # UndefinedIdx

\* C21: a load of the page (the first one or a reload) with a valid token
\* shows annotations[idx] of the decoded schedule without a next-task
\* request; only the mesh of that task is requested.
LoadWithTokenShowsTask ==
    /\ HasValidToken => ShowsTaskOfToken
    /\ [][ (Reload /\ HasValidToken) => ShowsTaskOfToken' ]_vars

\* the page was reloaded at a valid token and shows its task
LoadWithTokenShowsTaskWitness ==
    /\ reloaded
    /\ page = "task"
    /\ HasValidToken
    /\ ShowsTaskOfToken
    /\ meshCache = {}

\* C22: with no annotation_schedule in the URL of the task page nothing
\* has thrown and no schedule is active: annotSchedule is null, there is no
\* current task, the progress is (0, 0), the form is disabled and no
\* submission can be sent.
AbsentTokenIsNoSchedule ==
    (urlToken = NoParam /\ page \in {"task", "error"})
        => /\ page = "task"
           /\ annotSchedule = NoSchedule
           /\ ~HasAnnotInfo(annotSchedule)
           /\ getProgress(annotSchedule) = [completed |-> 0, total |-> 0]
           /\ isDisabled(annotSchedule)
           /\ ~ENABLED SubmitForm
           /\ submissions = <<>>

\* the page was loaded again at a URL without a token
AbsentTokenIsNoScheduleWitness ==
    /\ reloaded
    /\ page = "task"
    /\ urlToken = NoParam
    /\ annotSchedule = NoSchedule
    /\ fetches = 0

(***************************************************************************)
(* Form and geometry claims                                                *)
(***************************************************************************)
\* the request carries a category, an object id, a grasp id (0 counts)
\* and a non-empty description
CompleteRecord(r) ==
    /\ r.object_category \notin {<<>>, NoField}
    /\ r.object_id \notin {<<>>, NoField}
    /\ r.grasp_id # NoGraspId
    /\ r.description \notin {<<>>, NoField}

\* C23: no submission reaches the network unless category, object id and
\* grasp id are all present (grasp id 0 counts as present) and the
\* description is non-empty, in every form variant and for every
\* combination of the malformed-mesh and invalid-grasp flags.
ValidationGate == \A r \in sentRecords : CompleteRecord(r)

\* the same of the form of lines 120-257 alone
ValidationGateOfRecordForm == formVariant = 2 => ValidationGate

\* C24: building the geometry fails with MalformedPayload when the face
\* list is no multiple of 3 long, the vertex list is no multiple of 3
\* long, a face index is not below the number of vertices, or vertex
\* colors are given with a length other than that of the vertices.
IsMalformedPayload(payload) ==
    \/ Len(payload.faces) % 3 # 0
    \/ Len(payload.vertices) % 3 # 0
    \/ \E k \in 1..Len(payload.faces) : payload.faces[k] * 3 >= Len(payload.vertices)
    \/ /\ payload.vertexColors # NoField
       /\ Len(payload.vertexColors) # Len(payload.vertices)

MalformedPayloadRejected ==
    (geomMesh # Err("none") /\ IsMalformedPayload(geomPayload))
        => (~geomMesh.ok /\ geomMesh.err = "MalformedPayload")

(***************************************************************************)
(* Quiz state claims                                                       *)
(***************************************************************************)
\* the quiz has decided: it navigated away, or the delayed redirect of
\* the rejection branch is pending
QuizDecided == quizLocation # "quiz" \/ pendingRedirects > 0

\* the index of the last question
LastQuestionIdx == Len(QUESTIONS(quizVariant)) - 1

\* C25 (as stated): across every quiz step questionIndex never decreases
\* and correctCount never decreases, and the quiz is terminal (Passed or
\* Rejected decided) exactly when questionIndex equals questionCount.
QuizTerminalAtCount ==
    [][ /\ currentQuestionIdx' >= currentQuestionIdx
        /\ correctAnswers' >= correctAnswers
        /\ (QuizDecided' <=> (currentQuestionIdx' = Len(QUESTIONS(quizVariant)))) ]_vars

\* C25 (amended): currentQuestionIdx and correctAnswers never decrease;
\* the index never goes beyond that of the last question; the quiz
\* becomes decided exactly in the steps that run handleContinue on the
\* last question, and such a step leaves the index where it is.
QuizMonotoneAndTerminal ==
    /\ [](currentQuestionIdx \in 0..LastQuestionIdx)
    /\ [][ /\ currentQuestionIdx' >= currentQuestionIdx
           /\ correctAnswers' >= correctAnswers
           /\ (~QuizDecided /\ QuizDecided')
                 <=> (~QuizDecided /\ ClickContinue /\ currentQuestionIdx = LastQuestionIdx)
           /\ (~QuizDecided /\ QuizDecided') => (currentQuestionIdx' = currentQuestionIdx) ]_vars

QuizMonotoneAndTerminalWitness ==
    /\ quizVariant = 1
    /\ QuizDecided
    /\ currentQuestionIdx = LastQuestionIdx
    /\ currentQuestionIdx = 1
    /\ correctAnswers = 2

(***************************************************************************)
(* Progress and request claims of the workflow                             *)
(***************************************************************************)
\* C26: the schedule made from a next-task response has idx 0 and exactly
\* one task and replaces the previous schedule as a whole, so the progress
\* reported for it is (0, 1); for a schedule of several tasks the progress
\* reported is (idx, number of tasks).
InteractiveProgress ==
    /\ []((annotSchedule # NoSchedule /\ Len(annotSchedule.annotations) > 1)
            => getProgress(annotSchedule) =
                   [completed |-> annotSchedule.idx, total |-> Len(annotSchedule.annotations)])
    /\ [][ \A t \in BackendTasks :
              (FetchResponds("task", t) /\ page' = "task")
                  => /\ annotSchedule'.idx = 0
                     /\ annotSchedule'.annotations = <<t>>
                     /\ getProgress(annotSchedule') = [completed |-> 0, total |-> 1] ]_vars

InteractiveProgressWitness ==
    /\ page = "task"
    /\ annotSchedule = [idx |-> 0, annotations |-> <<Task(2)>>]
    /\ urlToken = TokenOf(annotSchedule).val
    /\ getProgress(annotSchedule) = [completed |-> 0, total |-> 1]
    /\ fetches = 0

(***************************************************************************)
(* Reviewer identity and submission claims of the form                     *)
(***************************************************************************)
\* C27: across the mounts of the form that share one browser storage a
\* user id is generated only when none is stored, and a stored id never
\* changes afterwards; every record submitted in a session without
\* platform code carries exactly the stored id.
ReviewerIdMintedOnce ==
    /\ []((formVariant = 2 /\ ~formProlific)
            => \A r \in sentRecords : r.user_id = storedUserId /\ r.user_id # <<>>)
    /\ [][ /\ (storedUserId # <<>>)
                 => (storedUserId' = storedUserId /\ mintedIds' = mintedIds)
           /\ (mintedIds' # mintedIds)
                 => /\ storedUserId = <<>>
                    /\ mintedIds' = mintedIds + 1
                    /\ storedUserId' = uuidv4(mintedIds') ]_vars

ReviewerIdMintedOnceWitness ==
    /\ formVariant = 2
    /\ ~formProlific
    /\ formMounts = 2
    /\ mintedIds = 1
    /\ storedUserId = uuidv4(1)
    /\ handleSubmitCalls = 2
    /\ formMounted
    /\ userID = storedUserId
    /\ \E r \in sentRecords : r.user_id = uuidv4(1)

\* C28: every invocation of handleSubmit issues exactly one POST and never
\* another one, whether the response is ok, an HTTP error, or the request
\* fails.
SingleSubmissionAttempt ==
    /\ [](postsIssued = handleSubmitCalls)
    /\ [][ /\ (postsIssued' # postsIssued)
                 => (FormClickSubmit /\ postsIssued' = postsIssued + 1)
           /\ \A outcome \in {"ok", "http_error", "network_error"} :
                 FormPostResponds(outcome) => postsIssued' = postsIssued ]_vars

SingleSubmissionAttemptWitness ==
    /\ handleSubmitCalls = 2
    /\ postsIssued = 2
    /\ alertsShown = 2
    /\ postsInFlight = 0
    /\ formMounted

(***************************************************************************)
(* Loading claims of the workflow                                          *)
(***************************************************************************)
\* C29: while loading is true (a next-task request or the asset load that
\* follows it is pending) no next-task request is started, by the Fetch
\* Mesh button or by a form submission that leads to a fetch; at most one
\* POST /api/get-object-info is in flight at any time.
NoReentrantFetch ==
    /\ [](fetches <= 1)
    /\ [][ (page = "task" /\ loading) => (fetches' <= fetches) ]_vars

\* the mesh of the task on display is loaded
AssetLoaded ==
    /\ page = "task"
    /\ HasAnnotInfo(annotSchedule)
    /\ annotInfo(annotSchedule) \in meshCache

\* C30: loading is set when a next-task request starts or a token is
\* decoded; once the request has succeeded with a task and the asset of
\* the task is loaded, loading becomes false and the fetch control is
\* enabled again, also when the new task is the task shown before.
LoadingClears ==
    /\ [](AssetLoaded => ~loading)
    /\ (page = "task" /\ HasAnnotInfo(annotSchedule) /\ loading) ~> ~loading
    /\ [][ /\ GLTFLoaded => ~loading'
           /\ (ClickFetchMesh \/ Reload) => (loading' \/ AssetLoaded' \/ urlToken' = NoParam)
           /\ \A t \in BackendTasks :
                 (/\ FetchResponds("task", t)
                  /\ AssetLoaded
                  /\ annotInfo(annotSchedule) = t)
                     => (page' = "task" /\ annotInfo(annotSchedule') = t /\ ~loading') ]_vars

LoadingClearsWitness ==
    /\ page = "task"
    /\ annotSchedule = [idx |-> 0, annotations |-> <<Task(2)>>]
    /\ Task(2) \in meshCache
    /\ ~loading
    /\ fetches = 0
    /\ ENABLED ClickFetchMesh

(***************************************************************************)
(* Quiz invariant and frame claims                                         *)
(***************************************************************************)
\* C37: in every reachable quiz state 0 <= questionIndex < questionCount,
\* the submitted answer ids are answer ids of the current question, and
\* correctCount <= questionIndex + 1 (hence correctCount <= questionCount).
QuizStateInvariant ==
    /\ 0 <= currentQuestionIdx
    /\ currentQuestionIdx < Len(QUESTIONS(quizVariant))
    /\ submittedAnswers \subseteq AnswerIds(currentQuestion)
    /\ correctAnswers <= currentQuestionIdx + 1
    /\ correctAnswers <= Len(QUESTIONS(quizVariant))

QuizStateInvariantWitness ==
    /\ quizVariant = 1
    /\ quizLocation = "quiz"
    /\ currentQuestionIdx = 1
    /\ correctAnswers = 2
    /\ Cardinality(submittedAnswers) = 3

\* C38: Continue on a question that is not the last increases
\* questionIndex by exactly 1, clears the selected answer, hides the
\* feedback, empties the submitted answer ids and leaves correctCount
\* unchanged; the answers submitted on the earlier question do not enable
\* Continue on the next one.
QuizAdvanceFrame ==
    [][ (ClickContinue /\ currentQuestionIdx < Len(QUESTIONS(quizVariant)) - 1)
          => /\ currentQuestionIdx' = currentQuestionIdx + 1
             /\ selectedAnswer' = NoAnswer
             /\ showFeedback' = FALSE
             /\ submittedAnswers' = {}
             /\ correctAnswers' = correctAnswers
             /\ quizLocation' = "quiz"
             /\ ~ContinueShown' ]_vars

QuizAdvanceFrameWitness ==
    /\ quizVariant = 1
    /\ quizLocation = "quiz"
    /\ currentQuestionIdx = 1
    /\ selectedAnswer = NoAnswer
    /\ ~showFeedback
    /\ submittedAnswers = {}
    /\ correctAnswers = 1
    /\ ~ContinueShown

(***************************************************************************)
(* Per-task form state claims                                              *)
(***************************************************************************)
\* C31: when a new task begins after a submission in a session that is not
\* one-shot, the description is empty and both flags are false, whatever
\* they were for the previous task: nothing of the form state of the
\* previous task carries over.
FormReplacedPerTask ==
    [][ \A props \in NextTaskProps :
          FormTaskArrives(props)
              => (formDescription' = <<>> /\ ~isMalformed' /\ ~isInvalidGrasp') ]_vars

\* C32: the start time is stamped once for each task shown, when the task
\* begins, and stamped again for every new task, one identical to the
\* previous task included; the time_taken submitted is the submit time
\* minus that stamp and is never negative.
StartStampedPerTask ==
    [][ /\ \A props \in NextTaskProps :
              FormTaskArrives(props) => startTime' = clock
        /\ FormClickSubmit
              => \E r \in sentRecords' :
                    /\ r.time_taken = clock - taskShownAt
                    /\ r.time_taken >= 0 ]_vars

\* the same for tasks that differ from the task before them
StartStampedPerChangedTask ==
    [][ \A props \in NextTaskProps :
          (FormTaskArrives(props) /\ props # formProps) => startTime' = clock ]_vars

\* C33: the tutorial is presented by a mount exactly when the stored
\* hasSeenTutorial item is absent, and that mount stores the item; so over
\* one browser storage at most one mount presents it, and afterwards the
\* overlay opens only through the Show Tutorial button
FirstVisitGateOnce ==
    /\ [][ \A host \in TutorialHosts :
              TutorialMount(host)
                  => /\ showTutorial' <=> (hasSeenTutorial = NoItem)
                     /\ hasSeenTutorial' = "true" ]_vars
    /\ [](autoPresented <= 1)
    /\ [][ (~showTutorial /\ showTutorial')
              => \/ ClickShowTutorial
                 \/ (hasSeenTutorial = NoItem /\ \E host \in TutorialHosts : TutorialMount(host)) ]_vars
    /\ [][ (hasSeenTutorial # NoItem) => (hasSeenTutorial' = hasSeenTutorial) ]_vars

\* a later mount that did not present the tutorial, reopened by the button
FirstVisitGateOnceWitness ==
    /\ autoPresented = 1
    /\ tutorialMounts >= 2
    /\ tutorialHost = "DataAnnotation"
    /\ showTutorial
    /\ shownBy = "button"

\* the handler of submission i resumes for the last task of its schedule
FinalTaskResumes(i) ==
    /\ FormResumes(i)
    /\ submissions[i].sched.idx + 1 = Len(submissions[i].sched.annotations)

\* C34: with a prolific_code in the URL, with or without oneshot=true, the
\* Fetch Mesh control is never used (it is hidden), no task is ever
\* requested from the backend, the handler of a submission of the last task
\* of the schedule leaves for the completion URL of the platform, and the
\* generic done page is never shown
ExternalSessionHandsOff ==
    /\ [](prolificCode => oneshot)
    /\ [][ prolificCode => ~ClickFetchMesh ]_vars
    /\ [][ prolificCode => (fetches' <= fetches) ]_vars
    /\ [][ \A i \in 1..Len(submissions) :
              (prolificCode /\ FinalTaskResumes(i)) => page' = "prolific" ]_vars
    /\ [](prolificCode => page # "done")

\* a session with a prolific_code and no oneshot=true that was handed to
\* the platform
ExternalSessionHandsOffWitness ==
    /\ prolificCode
    /\ ~oneshotParam
    /\ page = "prolific"

\* C35: navigateToSchedule leaves every pair of the query string whose name
\* is not annotation_schedule as it was, in value and in order, and leaves
\* exactly one annotation_schedule, the token pushed; so oneshot,
\* prolific_code and prolific_rejection_code keep their values and the
\* session mode read from the query string stays what it was
TokenPushPreservesParams ==
    [][ \A token \in PushedTokens :
           TokenPushed(token)
               => /\ WithoutName(URLSearchParams(locationSearch'), AnnotationScheduleName)
                        = WithoutName(URLSearchParams(locationSearch), AnnotationScheduleName)
                  /\ searchOneshot(locationSearch') = searchOneshot(locationSearch)
                  /\ searchParamsGet(URLSearchParams(locationSearch'), AnnotationScheduleName) = token
                  /\ Len(URLSearchParams(locationSearch'))
                        = Len(WithoutName(URLSearchParams(locationSearch), AnnotationScheduleName)) + 1
      ]_vars

\* after two pushes the query string still holds a prolific_code with a
\* value that needs escaping and an oneshot parameter
TokenPushPreservesParamsWitness ==
    /\ tokenPushes = 2
    /\ searchParamsHas(URLSearchParams(locationSearch), ProlificCodeName)
    /\ searchParamsGet(URLSearchParams(locationSearch), ProlificCodeName) = <<97, 32, 98, 38, 99>>
    /\ searchParamsHas(URLSearchParams(locationSearch), OneshotName)
    /\ searchParamsGet(URLSearchParams(locationSearch), AnnotationScheduleName) = <<89, 103, 37, 51, 68, 37, 51, 68>>

\* C36: the schedule in memory changes only to null (component state that
\* is fresh or gone) or to the value decoded from the token the URL holds
\* after the step; and on the task page, whenever the URL holds the token
\* of a valid schedule, the schedule in memory is the decoding of that
\* token and the task shown is the one at its cursor
SingleAuthoritativePosition ==
    /\ [][ (annotSchedule' # annotSchedule)
              => \/ annotSchedule' = NoSchedule
                 \/ /\ urlToken' # NoParam
                    /\ DecodedOf(urlToken').ok
                    /\ annotSchedule' = DecodedOf(urlToken').val ]_vars
    /\ []((page = "task" /\ HasValidToken)
              => /\ annotSchedule = UrlSchedule
                 /\ HasAnnotInfo(annotSchedule)
                 /\ annotInfo(annotSchedule) = UrlSchedule.annotations[UrlSchedule.idx + 1])

\* a cursor advanced by a submission, with a second handler of the same
\* task still to resume: the schedule in memory is the one of the URL
SingleAuthoritativePositionWitness ==
    /\ page = "task"
    /\ HasValidToken
    /\ UrlSchedule.idx = 1
    /\ annotSchedule = UrlSchedule
    /\ Len(submissions) = 1
    /\ submissions[1].sched.idx = 0

====
